---- MODULE Spec2Model ----
(***************************************************************************)
(* Model of the MOM host/guest control loop of elastic-benchmarks:         *)
(*   - mom.host_policy.HostPolicy (the fixed-interval control cycle),      *)
(*     with InquiryAllocator and the Balloon controller;                   *)
(*   - cloudexp.guest.application.control.DynamicResourceControl (the      *)
(*     guest-side memory reconciliation thread).                           *)
(* Host-side times are whole seconds, memory values are whole MB.          *)
(* Guest-side times are tenths of a second.                                *)
(* Python's None (and an absent dict key read through .get) is None.       *)
(***************************************************************************)
EXTENDS Integers, Sequences, FiniteSets, TLC

\* ---------------------------------------------------------------- bounds
MaxVal == 2
MaxGrace == 2
MaxInterval == 1
MaxTime == 2
MaxMem == 3
MaxDrcGrace == 3
MaxDecrease == 2
MaxWait == 2
MaxClock == 1
MaxDomains == 2
MaxInst == 2
MaxPaceConfig == 102
MaxDuration == 104
MaxCalls == 3
MaxCollectors == 3
MaxHist == 2
MaxCollects == 3
MaxRequests == 3
MaxTgClock == 3
MaxTgGrace == 2
MaxNotifies == 2
MaxChGrace == 1
MaxCtCycles == 2
MaxSleep == 3

\* ------------------------------------------------------------- constants
\* DEFAULT_MINIMAL_SLEEP = 1e-2 seconds, in hundredths of a second
DEFAULT_MINIMAL_SLEEP == 1

\* the floor of HostPolicy.interval, max(..., 1.), in hundredths of a second
MIN_POLICY_INTERVAL == 100

\* DynamicResourceControl.STATS_POLL_TIMEOUT = 0.5 seconds, in tenths
STATS_POLL_TIMEOUT == 5

\* Python's None, and float('nan') (InvalidMemory of mom.util.memory_type):
\* two values outside every range of sizes and times of the model
None == 0 - 1000

InvalidMemory == 0 - 999

\* do_controls: guest_list, the entities of guest_manager.interrogate()
guest_list == <<"B", "A">>

Guests == {guest_list[i] : i \in DOMAIN guest_list}

\* config ['policy']['resources'] of momhostd.py, one controller per resource
resources == <<"memory">>

Resources == {resources[i] : i \in DOMAIN resources}

\* memory sizes an inquiry can ask for (MB), 10 MB apart and 5 MB away from
\* the domain's max memory: two different sizes are never within Balloon's
\* 5 MB tolerance
MemVals == {10 * i - 5 : i \in 1..MaxVal}

\* a dict keyed by resource; a missing key reads as None
Dicts == [Resources -> MemVals \cup {None}]

EmptyDict == [r \in Resources |-> None]

Max(a, b) == IF a >= b THEN a ELSE b

Min(a, b) == IF a <= b THEN a ELSE b

\* libvirt dom.info()[1] in MB: the largest askable size exceeds it
max_mem(g) == 10 * (MaxVal - 1)

VARIABLES
    should_run,      \* Terminable: not _termination_event.is_set()
    host_ready,      \* host Monitor.ready
    interval,        \* HostPolicy.interval
    grace_period,    \* HostPolicy.grace_period
    cfg_grace,       \* config ['policy']['grace-period']
    hp_pc,           \* position of the HostPolicy thread
    now,             \* time.time() - start of the current cycle (capped)
    inquiry_time,    \* do_controls local
    notify_start,    \* do_controls local
    remaining_grace, \* do_controls local (None before it is computed)
    sleep_until,     \* deadline of the running terminable_sleep
    task,            \* per guest: the executor job submitted last: "none",
                     \* running as "inquire", "notify" or "final", or "done"
    task_res,        \* per guest: result of the job (future.result())
    ent_vars,        \* per guest: MonitorDataEntity.variables
    ent_controls,    \* per guest: MonitorDataEntity.controls
    mon_vars,        \* per guest: Monitor.variables
    cur_mem,         \* per guest: libvirt dom.info()[2] in MB
    ctrl_idx,        \* index into HostPolicy.controllers
    prov_notify,     \* per guest: content of the provisional Notify sent
    final_notify,    \* per guest: content of the final Notify sent
    set_memory,      \* per guest: value of dom.setMemory this cycle (MB)
    ctrl_arg,        \* per guest: the control apply_control found this cycle
    apply_pending,   \* apply_control calls made, less those of completed cycles
    policy_state,    \* apply_policy of this cycle: "none","done","raised"
    slept,           \* the grace sleep of this cycle has ended
    prev_outcome     \* how the previous cycle ended

hostVars == <<should_run, host_ready, interval, grace_period, cfg_grace, hp_pc,
              now, inquiry_time, notify_start, remaining_grace, sleep_until,
              task, task_res, ent_vars, ent_controls, mon_vars, cur_mem,
              ctrl_idx, prov_notify, final_notify, set_memory, ctrl_arg,
              apply_pending, policy_state, slept, prev_outcome>>

VARIABLES
    drc_pc,            \* position of the DynamicResourceControl thread
    drc_should_run,    \* its Terminable flag
    wait_timeout,      \* self.wait_timeout (tenths of a second)
    decrease_mem_time, \* self.decrease_mem_time (tenths of a second)
    memory_diff,       \* self.memory_diff (InvalidMemory until initialised)
    available_memory,  \* self.available_memory
    wait_time,         \* logged_run local: timeout of the next request
    target,            \* logged_run local: what request_target returned
    poll_t,            \* poll_stats: time.time() since the poll started
    poll_stable,       \* poll_stats: stable_time since the poll started
    poll_cur,          \* poll_stats: cur_value
    um_entry,          \* memory_diff and available_memory at the entry of
                       \* the last _update_memory call
    um_ret,            \* what the last _update_memory call returned
    change_arg,        \* mem_total of this tick's change_mem_func call
    app_target_thread, \* argument of the update_application_target thread
                       \* started in this tick
    diff_thread        \* the update_resource_diff thread: "none","started","sent"

drcVars == <<drc_pc, drc_should_run, wait_timeout, decrease_mem_time, memory_diff,
             available_memory, wait_time, target, poll_t, poll_stable, poll_cur,
             um_entry, um_ret, change_arg, app_target_thread, diff_thread>>

VARIABLES
    gs_clock,   \* guest: time.time() of the guest server (capped)
    gs_data,    \* GuestServer.data: the 'notify', 'inquiry' and 'app-target' entries
    gs_policy,  \* BaseGuestPolicy: init_time, resource_diff, _notify_event
    gs_msg      \* the message GuestServer.process_message handled last

gsVars == <<gs_clock, gs_data, gs_policy, gs_msg>>

VARIABLES
    shared_arg,   \* MomHostDaemon(shared_terminable=...): "None" or "X"
    ev_of,        \* per Terminable: the object whose Event its _termination_event is
    ev_set,       \* per Event (named by the object that created it): is_set()
    th,           \* per top-level thread: "new", "running" or "ended"
    dm_pc,        \* position of MomHostDaemon.run_mom
    gm_pc,        \* position of GuestManager.logged_run
    gm_dom,       \* GuestManager.logged_run local: domain_list
    spawn_list,   \* spawn_guest_monitors local: the ids still to construct
    reg,          \* GuestManager.guest_monitors: per id the monitor, 0 if absent
    mon,          \* per GuestMonitor constructed: id, thread state, ready, ...
    interrogated, \* the monitors whose Entity the last interrogate() returned
    term_log      \* who called terminate() so far; did a call find the flag set

dmVars == <<shared_arg, ev_of, ev_set, th, dm_pc, gm_pc, gm_dom, spawn_list, reg,
            mon, interrogated, term_log>>

VARIABLES
    pace_interval, \* HostPolicy.interval, in hundredths of a second
    pace_pc,       \* position of HostPolicy.logged_run: "top", "run", "sleep", "ended"
    pace_term,     \* is the termination Event set
    pace_took,     \* time.time() - start after the last do_controls()
    pace_slept,    \* how long the last terminable_sleep blocked (0: it did not)
    pace_gap       \* start of the running cycle minus start of the one before

paceVars == <<pace_interval, pace_pc, pace_term, pace_took, pace_slept, pace_gap>>

VARIABLES
    rpc_pc,       \* one send_receive_message call: "idle", "sent", "replied", "done"
    rpc_n,        \* calls completed on this GuestClient (capped)
    rpc_handler,  \* what message.process did on the receiver's side
    rpc_response, \* the response_message GuestServer.process_message built
    rpc_wire,     \* what send_recv did: "ok", "error" (it raised), "foreign"
    rpc_result    \* what the last finished send_receive_message gave its caller

rpcVars == <<rpc_pc, rpc_n, rpc_handler, rpc_response, rpc_wire, rpc_result>>

VARIABLES
    col_hist,     \* Monitor.hist_len, config 'sample-history-length'
    col_pc,       \* position of Monitor.collect: "idle", "collecting", "appended", "pushed"
    col_n,        \* records appended to Monitor.statistics so far
    col_idx,      \* collect: index of the collector invoked next
    col_out,      \* collect: what each collector invoked in this call did
    col_data,     \* collect local: data
    col_stats,    \* Monitor.statistics: the records, named by their number
    col_lock,     \* holder of Monitor.data_lock: "none" or "collect"
    col_snapshot, \* statistics of the Entity the last interrogate() returned,
                  \* and the number of records appended when it returned
    col_logged    \* number of the record data_logger.append_data got last

colVars == <<col_hist, col_pc, col_n, col_idx, col_out, col_data, col_stats,
             col_lock, col_snapshot, col_logged>>

VARIABLES
    ds_timeout, \* per DeferredStartThread: _start_timeout (None, or a time)
    ds_started, \* the start Events that are set (named by their creator)
    ds_term,    \* per thread: its termination Event is set
    ds_st,      \* per thread: "new", "waiting" (in run), "running" (in logged_run), "ended"
    ds_go,      \* the threads go() was called on (terminate() calls it too)
    ds_late     \* the threads whose wait for the start Event timed out

dsVars == <<ds_timeout, ds_started, ds_term, ds_st, ds_go, ds_late>>

\* ---- one Monitor and the Entity its interrogate() returned
VARIABLES
    me_ready,      \* Monitor.ready is set
    me_variables,  \* Monitor.variables
    me_statistics, \* Monitor.statistics: the numbers of the records kept
    me_count,      \* the number of records collected so far
    me_entity      \* the Entity: live, variables, controls, statistics, ...

meVars == <<me_ready, me_variables, me_statistics, me_count, me_entity>>

\* ---- one GuestClient, the threads calling it and the guest's server
VARIABLES
    ch_lock,    \* GuestClient.lock: the caller holding it, or "none"
    ch_pc,      \* per caller: "idle", "locked", "connected", "sent"
    ch_call,    \* per caller: the call in progress, or the one made last
    ch_sock,    \* SimpleTcpClient.sock: 0 for None, else the connection
    ch_conns,   \* the connections opened so far
    ch_reqs,    \* the requests made so far
    ch_inbox,   \* the messages that reached the server, not processed yet
    ch_replies, \* the replies the server wrote, not read yet
    ch_notify,  \* the guest's notify data: the Notify processed last, 0 if none
    ch_up,      \* the guest's server is reachable and answers in time
    ch_result   \* per caller: what its last finished call gave

chVars == <<ch_lock, ch_pc, ch_call, ch_sock, ch_conns, ch_reqs, ch_inbox,
            ch_replies, ch_notify, ch_up, ch_result>>

\* ---- the guest server's handler threads and request_target
VARIABLES
    tg_clock,   \* time.time() on the guest, in hundredths of a second
    tg_notify,  \* GuestServer.data['notify'], each entry with the Notify it is from
    tg_nh,      \* the handler thread processing a Notify: "idle", "updated", "timed"
    tg_sent,    \* the Notify messages processed or being processed so far
    tg_event,   \* BaseGuestPolicy._notify_event is set
    tg_ta,      \* the TargetAllocation request: "idle", "waiting", "woke", "replied"
    tg_reply,   \* the notification the request's reply carried
    tg_out      \* what request_target computed from the reply

tgVars == <<tg_clock, tg_notify, tg_nh, tg_sent, tg_event, tg_ta, tg_reply, tg_out>>

\* ---- one Balloon.apply_control call
VARIABLES
    bl_target,  \* per guest: the entity's control for memory at the call (None if unset)
    bl_control, \* per guest: the entity's control for memory as the call leaves it
    bl_curmem,  \* per guest: stat('libvirt')['curmem'] (None if it is missing)
    bl_dom,     \* per guest: the current memory dom.info() reports
    bl_order,   \* the guests apply_guest_control was called for, in order
    bl_set      \* per guest: the size handed to dom.setMemory (None if none)

blVars == <<bl_target, bl_control, bl_curmem, bl_dom, bl_order, bl_set>>

VARIABLES
    ct_pc,       \* position of the HostPolicy thread: "loop", "control", "final",
                 \* "sleep", "ended", or "dead" (ended by an exception)
    ct_idx,      \* do_controls: index of the controller the loop is at
    ct_applied,  \* the controllers whose apply_control returned this cycle
    ct_raised,   \* index of the controller whose apply_control raised, 0 if none
    ct_controls, \* entity.controls of this cycle
    ct_last,     \* the Monitor's last_control (0: none stored)
    ct_stored,   \* store_variables was called this cycle
    ct_final,    \* the final Notify was sent this cycle
    ct_cycles,   \* do_controls calls so far
    ct_shared,   \* the daemon was given a shared_terminable
    ct_term,     \* is_set() of the termination Event of "HP" and of "D"
    ct_dm,       \* position of run_mom: "loop", "terminate", "join", "done"
    ct_warned    \* run_mom logged that a thread ended before it should

ctVars == <<ct_pc, ct_idx, ct_applied, ct_raised, ct_controls, ct_last, ct_stored,
            ct_final, ct_cycles, ct_shared, ct_term, ct_dm, ct_warned>>

VARIABLES
    sl_set,      \* per termination Event ("E" shared, "Y" on its own): is_set()
    sl_pc,       \* per sleeping thread: "idle", "blocked", "returned"
    sl_timeout,  \* per thread: the argument of terminable_sleep (hundredths)
    sl_waited,   \* per thread: how long it has been blocked
    sl_notified, \* per thread: set() reached it while it was blocked
    sl_early,    \* per thread: set() was called before its timeout had passed
    sl_result    \* per thread: what terminable_sleep returned ("none" before)

slVars == <<sl_set, sl_pc, sl_timeout, sl_waited, sl_notified, sl_early, sl_result>>

\* the parts of the program modelled on their own
auxVars == <<rpcVars, colVars, dsVars, meVars, chVars, tgVars, blVars, ctVars, slVars>>

\* the daemons' variables, for the parts modelled on their own
coreVars == <<hostVars, drcVars, gsVars, dmVars, paceVars>>

extVars == <<gsVars, dmVars, paceVars, auxVars>>

vars == <<hostVars, drcVars, extVars>>

\* ------------------------------------------------------------ data shapes
NoInquiry == [isNone |-> TRUE, d |-> EmptyDict]

InitialVars == [inquiry |-> NoInquiry, last_control |-> EmptyDict]

NoMsg == [sent |-> FALSE, alloc |-> EmptyDict, grace |-> None]

\* what the transport and the guest server hand back for one request
Replies ==
    [transport : {"ok"}, isdict : {TRUE}, ack : {TRUE}, resp_isdict : {TRUE}, resp : Dicts]
    \cup [transport : {"timeout", "error"}, isdict : {TRUE}, ack : {TRUE}, resp_isdict : {TRUE}, resp : {EmptyDict}]
    \cup [transport : {"ok"}, isdict : {FALSE}, ack : {TRUE}, resp_isdict : {TRUE}, resp : {EmptyDict}]
    \cup [transport : {"ok"}, isdict : {TRUE}, ack : {FALSE}, resp_isdict : {FALSE}, resp : {EmptyDict}]
    \cup [transport : {"ok"}, isdict : {TRUE}, ack : {TRUE}, resp_isdict : {FALSE}, resp : {EmptyDict}]

\* GuestClient.send_receive_message: the dict of a good reply, or raises
send_receive_message(reply) ==
    IF reply.transport # "ok" THEN [raised |-> TRUE, data |-> EmptyDict]
    ELSE IF ~reply.isdict THEN [raised |-> TRUE, data |-> EmptyDict]
    ELSE IF ~reply.ack THEN [raised |-> TRUE, data |-> EmptyDict]
    ELSE IF ~reply.resp_isdict THEN [raised |-> TRUE, data |-> EmptyDict]
    ELSE [raised |-> FALSE, data |-> reply.resp]

\* HostPolicy.inquire_guest: the reply dict, or None when the RPC raised
inquire_guest(reply) ==
    LET r == send_receive_message(reply)
    IN IF r.raised THEN NoInquiry ELSE [isNone |-> FALSE, d |-> r.data]

\* is_valid_mem / is_memory_close of mom.util.memory_type on whole MB
is_valid_mem(m) == m # None /\ m # InvalidMemory

is_memory_close(mem1, mem2, eps) ==
    is_valid_mem(mem1) /\ is_valid_mem(mem2) /\ mem1 + eps > mem2 /\ mem2 + eps > mem1

\* Terminable.terminable_sleep: does a call with this timeout block at all
SleepBlocks(timeout) == timeout * 100 > DEFAULT_MINIMAL_SLEEP

\* variant: the join returns as soon as one job has returned
AllJobsReturned_Any(t) == \E g \in Guests : t[g] = "done"

\* parallel_for_each_guest: the loop over j.result() has passed every job
AllJobsReturned(t) == \A g \in Guests : t[g] = "done"

\* the position of a guest in guest_list
Pos(g) == CHOOSE i \in DOMAIN guest_list : guest_list[i] = g

\* variant: the remaining grace without the clamp at zero
RemainingGrace_NoClamp(grace, t, inq_t) == grace - (t - inq_t)

\* do_controls: max(0., self.grace_period - (time.time() - inquiry_time))
RemainingGrace(grace, t, inq_t) == Max(0, grace - (t - inq_t))

\* variant: the answered resources are not copied into the controls
apply_policy_guest_Skip(inquiry, controls) == controls

\* InquiryAllocator.apply_policy for one guest
apply_policy_guest(inquiry, controls) ==
    IF inquiry.isNone THEN controls
    ELSE [r \in Resources |-> IF inquiry.d[r] # None THEN inquiry.d[r] ELSE controls[r]]

\* variant: the loop stops (break) at the first guest without an inquiry
apply_policy_break(ev, ec) ==
    [g \in Guests |->
        IF \E h \in Guests : Pos(h) <= Pos(g) /\ ev[h].inquiry.isNone
        THEN ec[g]
        ELSE apply_policy_guest(ev[g].inquiry, ec[g])]

\* InquiryAllocator.apply_policy: the controls of all the guests
apply_policy(ev, ec) ==
    [g \in Guests |-> apply_policy_guest(ev[g].inquiry, ec[g])]

\* variant: the clamped target is not written back (no set_guest_target)
BalloonControl_NoPersist(g, tgt) == tgt

\* Balloon.apply_guest_control, the control it leaves in the entity
BalloonControl(g, tgt) ==
    IF tgt = None THEN tgt
    ELSE IF tgt > max_mem(g) THEN max_mem(g) ELSE tgt

\* the position of a resource in resources, i.e. of its controller in
\* self.controllers
ControllerPos(r) == CHOOSE i \in DOMAIN resources : resources[i] = r

\* variant: the size handed to dom.setMemory is the target before the clamp
BalloonSetMemory_Unclamped(g, tgt, cur) ==
    IF tgt = None THEN None
    ELSE IF is_memory_close(tgt, cur, 5) THEN None
    ELSE tgt

\* Balloon.apply_guest_control, the size handed to dom.setMemory (or None)
BalloonSetMemory(g, tgt, cur) ==
    IF tgt = None THEN None
    ELSE IF is_memory_close(BalloonControl(g, tgt), cur, 5) THEN None
    ELSE BalloonControl(g, tgt)

\* HostPolicy.notify_guest: the alloc dict of the Notify message
NotifyAlloc(controls) == [r \in Resources |-> controls[r]]


\* ------------------------------------------------------- HostPolicy: Init
HostInit ==
    /\ should_run = TRUE
    /\ host_ready \in BOOLEAN
    /\ \E ci \in 1..MaxInterval, cg \in 0..MaxGrace :
          /\ interval = Max(ci, 1)
          /\ cfg_grace = cg
          /\ grace_period = Min(cg, Max(ci, 1))
    /\ hp_pc = "loop"
    /\ now = 0
    /\ inquiry_time = 0
    /\ notify_start = 0
    /\ remaining_grace = None
    /\ sleep_until = 0
    /\ task = [g \in Guests |-> "none"]
    /\ task_res = [g \in Guests |-> NoInquiry]
    /\ ent_vars = [g \in Guests |-> InitialVars]
    /\ ent_controls = [g \in Guests |-> EmptyDict]
    /\ mon_vars = [g \in Guests |-> InitialVars]
    /\ cur_mem = [g \in Guests |-> max_mem(g)]
    /\ ctrl_idx = 0
    /\ prov_notify = [g \in Guests |-> NoMsg]
    /\ final_notify = [g \in Guests |-> NoMsg]
    /\ set_memory = [g \in Guests |-> None]
    /\ ctrl_arg = [g \in Guests |-> None]
    /\ apply_pending = 0
    /\ policy_state = "none"
    /\ slept = FALSE
    /\ prev_outcome = "none"

cfgVars == <<interval, grace_period, cfg_grace>>

\* the per-cycle records, cleared when a cycle starts
CycleReset ==
    /\ notify_start' = 0
    /\ remaining_grace' = None
    /\ ctrl_idx' = 0
    /\ prov_notify' = [g \in Guests |-> NoMsg]
    /\ final_notify' = [g \in Guests |-> NoMsg]
    /\ set_memory' = [g \in Guests |-> None]
    /\ ctrl_arg' = [g \in Guests |-> None]
    /\ policy_state' = "none"
    /\ slept' = FALSE

\* a return out of do_controls: back in logged_run, before the interval sleep
EndCycle(outcome) ==
    /\ hp_pc' = "cycle_end"
    /\ prev_outcome' = outcome

\* ---------------------------------------------------- environment actions
\* Terminable.terminate(), from any thread sharing the flag
Terminate ==
    /\ should_run
    /\ should_run' = FALSE
    /\ UNCHANGED <<host_ready, cfgVars, hp_pc, now, inquiry_time, notify_start,
                   remaining_grace, sleep_until, task, task_res, ent_vars,
                   ent_controls, mon_vars, cur_mem, apply_pending, ctrl_idx,
                   prov_notify, final_notify, set_memory, ctrl_arg, policy_state, slept,
                   prev_outcome>>
    /\ UNCHANGED <<drcVars, extVars>>

\* Monitor._set_ready() of the host monitor
HostMonitorReady ==
    /\ ~host_ready
    /\ host_ready' = TRUE
    /\ UNCHANGED <<should_run, cfgVars, hp_pc, now, inquiry_time, notify_start,
                   remaining_grace, sleep_until, task, task_res, ent_vars,
                   ent_controls, mon_vars, cur_mem, apply_pending, ctrl_idx,
                   prov_notify, final_notify, set_memory, ctrl_arg, policy_state, slept,
                   prev_outcome>>
    /\ UNCHANGED <<drcVars, extVars>>

\* one second passes while the HostPolicy thread is inside a timed stage
Tick ==
    /\ now < MaxTime
    /\ \/ hp_pc \in {"inquire", "notify"}
       \/ hp_pc \in {"grace_sleep", "interval_sleep"} /\ now < sleep_until
    /\ now' = now + 1
    /\ UNCHANGED <<should_run, host_ready, cfgVars, hp_pc, inquiry_time,
                   notify_start, remaining_grace, sleep_until, task, task_res,
                   ent_vars, ent_controls, mon_vars, cur_mem, apply_pending, ctrl_idx, prov_notify, final_notify, set_memory, ctrl_arg,
                   policy_state, slept, prev_outcome>>
    /\ UNCHANGED <<drcVars, extVars>>

\* ------------------------------------------------- HostPolicy.logged_run
\* while self.should_run: false, the thread ends
HP_Exit ==
    /\ hp_pc = "loop"
    /\ ~should_run
    /\ hp_pc' = "ended"
    /\ UNCHANGED <<should_run, host_ready, cfgVars, now, inquiry_time, notify_start,
                   remaining_grace, sleep_until, task, task_res, ent_vars,
                   ent_controls, mon_vars, cur_mem, apply_pending, ctrl_idx,
                   prov_notify, final_notify, set_memory, ctrl_arg, policy_state, slept,
                   prev_outcome>>
    /\ UNCHANGED <<drcVars, extVars>>

\* start = time.time(); do_controls() up to the submission of the inquiries
HP_StartCycle ==
    /\ hp_pc = "loop"
    /\ should_run
    /\ CycleReset
    /\ sleep_until' = 0
    /\ task_res' = [g \in Guests |-> NoInquiry]
    /\ IF ~host_ready
       THEN /\ EndCycle("not_ready")
            /\ now' = 0
            /\ inquiry_time' = 0
            /\ UNCHANGED <<task, ent_vars, ent_controls>>
       ELSE /\ hp_pc' = "inquire"
            /\ \E collect_time \in 0..1 :
                  /\ now' = collect_time
                  /\ inquiry_time' = collect_time
            /\ ent_vars' = [g \in Guests |-> mon_vars[g]]
            /\ ent_controls' = [g \in Guests |-> EmptyDict]
            /\ task' = [g \in Guests |-> "inquire"]
            /\ UNCHANGED prev_outcome
    /\ UNCHANGED <<should_run, host_ready, cfgVars, mon_vars, cur_mem, apply_pending>>
    /\ UNCHANGED <<drcVars, extVars>>

\* one executor job running inquire_guest(g, grace_period=self.grace_period)
InquireTask(g) ==
    /\ task[g] = "inquire"
    /\ \E reply \in Replies :
          task_res' = [task_res EXCEPT ![g] = inquire_guest(reply)]
    /\ task' = [task EXCEPT ![g] = "done"]
    /\ UNCHANGED <<should_run, host_ready, cfgVars, hp_pc, now, inquiry_time,
                   notify_start, remaining_grace, sleep_until, ent_vars,
                   ent_controls, mon_vars, cur_mem, apply_pending, ctrl_idx, prov_notify,
                   final_notify, set_memory, ctrl_arg, policy_state, slept, prev_outcome>>
    /\ UNCHANGED <<drcVars, extVars>>

\* variant: the result is stored only when it is not None
set_var_result_IfNotNone(variables, res) ==
    IF res.isNone THEN variables ELSE [variables EXCEPT !.inquiry = res]

\* parallel_for_each_guest: g.set_var(results_var_key, res)
set_var_result(variables, res) == [variables EXCEPT !.inquiry = res]

\* parallel_for_each_guest(inquire_guest, results_var_key='inquiry') returns
HP_InquireJoin ==
    /\ hp_pc = "inquire"
    /\ AllJobsReturned(task)
    /\ ent_vars' = [g \in Guests |-> set_var_result(ent_vars[g], task_res[g])]
    /\ IF should_run
       THEN hp_pc' = "policy" /\ UNCHANGED prev_outcome
       ELSE EndCycle("terminated")
    /\ UNCHANGED <<should_run, host_ready, cfgVars, now, inquiry_time, notify_start,
                   remaining_grace, sleep_until, task, task_res, ent_controls, mon_vars,
                   cur_mem, apply_pending, ctrl_idx, prov_notify, final_notify,
                   set_memory, ctrl_arg, policy_state, slept>>
    /\ UNCHANGED <<drcVars, extVars>>

\* variant: the except clause logs the exception and falls through
HP_ApplyPolicy_NoReturn ==
    /\ hp_pc = "policy"
    /\ \E raises \in BOOLEAN :
          IF raises
          THEN /\ policy_state' = "raised"
               /\ hp_pc' = "notify_start"
               /\ UNCHANGED <<ent_controls, prev_outcome>>
          ELSE /\ policy_state' = "done"
               /\ ent_controls' = apply_policy(ent_vars, ent_controls)
               /\ IF should_run
                  THEN hp_pc' = "notify_start" /\ UNCHANGED prev_outcome
                  ELSE EndCycle("terminated")
    /\ UNCHANGED <<should_run, host_ready, cfgVars, now, inquiry_time, notify_start,
                   remaining_grace, sleep_until, task, task_res, ent_vars, mon_vars,
                   cur_mem, apply_pending, ctrl_idx, prov_notify, final_notify, set_memory, ctrl_arg, slept>>
    /\ UNCHANGED <<drcVars, extVars>>

\* with self.policy_lock: self.policy.apply_policy(host, guest_list)
\* (the allocator is pluggable: any allocator may raise)
HP_ApplyPolicy ==
    /\ hp_pc = "policy"
    /\ \E raises \in BOOLEAN :
          IF raises
          THEN /\ policy_state' = "raised"
               /\ EndCycle("policy_error")
               /\ UNCHANGED ent_controls
          ELSE /\ policy_state' = "done"
               /\ ent_controls' = apply_policy(ent_vars, ent_controls)
               /\ IF should_run
                  THEN hp_pc' = "notify_start" /\ UNCHANGED prev_outcome
                  ELSE EndCycle("terminated")
    /\ UNCHANGED <<should_run, host_ready, cfgVars, now, inquiry_time, notify_start,
                   remaining_grace, sleep_until, task, task_res, ent_vars, mon_vars,
                   cur_mem, apply_pending, ctrl_idx, prov_notify, final_notify,
                   set_memory, ctrl_arg, slept>>
    /\ UNCHANGED <<drcVars, extVars>>

\* notify_start = time.time(); remaining_grace = ...; submit the notify jobs
HP_NotifyStart ==
    /\ hp_pc = "notify_start"
    /\ notify_start' = now
    /\ remaining_grace' = RemainingGrace(grace_period, now, inquiry_time)
    /\ task' = [g \in Guests |-> "notify"]
    /\ hp_pc' = "notify"
    /\ UNCHANGED <<should_run, host_ready, cfgVars, now, inquiry_time, sleep_until,
                   task_res, ent_vars, ent_controls, mon_vars, cur_mem, apply_pending, ctrl_idx, prov_notify, final_notify, set_memory, ctrl_arg,
                   policy_state, slept, prev_outcome>>
    /\ UNCHANGED <<drcVars, extVars>>

\* one executor job running notify_guest(g, grace_period=remaining_grace);
\* whatever the guest replies, the job only logs and returns
NotifyTask(g) ==
    /\ task[g] = "notify"
    /\ prov_notify' = [prov_notify EXCEPT ![g] =
           [sent |-> TRUE, alloc |-> NotifyAlloc(ent_controls[g]),
            grace |-> remaining_grace]]
    /\ task' = [task EXCEPT ![g] = "done"]
    /\ UNCHANGED <<should_run, host_ready, cfgVars, hp_pc, now, inquiry_time,
                   notify_start, remaining_grace, sleep_until, task_res, ent_vars,
                   ent_controls, mon_vars, cur_mem, apply_pending, ctrl_idx,
                   final_notify, set_memory, ctrl_arg, policy_state, slept, prev_outcome>>
    /\ UNCHANGED <<drcVars, extVars>>

\* parallel_for_each_guest(notify_guest) returns; notify_end = time.time()
HP_NotifyJoin ==
    /\ hp_pc = "notify"
    /\ AllJobsReturned(task)
    /\ IF should_run
       THEN hp_pc' = "log" /\ UNCHANGED prev_outcome
       ELSE EndCycle("terminated")
    /\ UNCHANGED <<should_run, host_ready, cfgVars, now, inquiry_time, notify_start,
                   remaining_grace, sleep_until, task, task_res, ent_vars, ent_controls,
                   mon_vars, cur_mem, apply_pending, ctrl_idx, prov_notify,
                   final_notify, set_memory, ctrl_arg, policy_state, slept>>
    /\ UNCHANGED <<drcVars, extVars>>

\* the notify log records, then remaining_grace = ...; terminable_sleep(it)
HP_GraceSleep ==
    /\ hp_pc = "log"
    /\ remaining_grace' = RemainingGrace(grace_period, now, inquiry_time)
    /\ IF SleepBlocks(remaining_grace') /\ should_run
       THEN /\ hp_pc' = "grace_sleep"
            /\ sleep_until' = now + remaining_grace'
            /\ UNCHANGED <<slept, ctrl_idx, prev_outcome>>
       ELSE /\ slept' = TRUE
            /\ sleep_until' = now
            /\ IF should_run
               THEN hp_pc' = "control" /\ ctrl_idx' = 1 /\ UNCHANGED prev_outcome
               ELSE EndCycle("terminated") /\ UNCHANGED ctrl_idx
    /\ UNCHANGED <<should_run, host_ready, cfgVars, now, inquiry_time, notify_start,
                   task, task_res, ent_vars, ent_controls, mon_vars, cur_mem, apply_pending, prov_notify, final_notify, set_memory, ctrl_arg,
                   policy_state>>
    /\ UNCHANGED <<drcVars, extVars>>

\* variant: the controllers are applied whatever should_run says
HP_GraceWake_NoCheck ==
    /\ hp_pc = "grace_sleep"
    /\ now >= sleep_until \/ ~should_run
    /\ slept' = TRUE
    /\ hp_pc' = "control"
    /\ ctrl_idx' = 1
    /\ UNCHANGED <<should_run, host_ready, cfgVars, now, inquiry_time, notify_start,
                   remaining_grace, sleep_until, task, task_res, ent_vars,
                   ent_controls, mon_vars, cur_mem, apply_pending, prov_notify,
                   final_notify, set_memory, ctrl_arg, policy_state, prev_outcome>>
    /\ UNCHANGED <<drcVars, extVars>>

\* the grace sleep returns: its time is over or termination was signalled
HP_GraceWake ==
    /\ hp_pc = "grace_sleep"
    /\ now >= sleep_until \/ ~should_run
    /\ slept' = TRUE
    /\ IF should_run
       THEN hp_pc' = "control" /\ ctrl_idx' = 1 /\ UNCHANGED prev_outcome
       ELSE EndCycle("terminated") /\ UNCHANGED ctrl_idx
    /\ UNCHANGED <<should_run, host_ready, cfgVars, now, inquiry_time, notify_start,
                   remaining_grace, sleep_until, task, task_res, ent_vars,
                   ent_controls, mon_vars, cur_mem, apply_pending, prov_notify,
                   final_notify, set_memory, ctrl_arg, policy_state>>
    /\ UNCHANGED <<drcVars, extVars>>

\* for c in self.controllers: c.apply_control(host, guest_list)  (Balloon)
HP_ApplyControl ==
    /\ hp_pc = "control"
    /\ ctrl_idx <= Len(resources)
    /\ LET r == resources[ctrl_idx]
       IN /\ ent_controls' = [g \in Guests |->
                 [ent_controls[g] EXCEPT ![r] = BalloonControl(g, ent_controls[g][r])]]
          /\ set_memory' = [g \in Guests |->
                 BalloonSetMemory(g, ent_controls[g][r], cur_mem[g])]
          /\ cur_mem' = [g \in Guests |->
                 IF BalloonSetMemory(g, ent_controls[g][r], cur_mem[g]) # None
                 THEN BalloonSetMemory(g, ent_controls[g][r], cur_mem[g])
                 ELSE cur_mem[g]]
    /\ ctrl_arg' = [g \in Guests |-> ent_controls[g][resources[ctrl_idx]]]
    /\ apply_pending' = apply_pending + 1
    /\ ctrl_idx' = ctrl_idx + 1
    /\ UNCHANGED <<should_run, host_ready, cfgVars, hp_pc, now, inquiry_time,
                   notify_start, remaining_grace, sleep_until, task, task_res,
                   ent_vars, mon_vars, prov_notify, final_notify,
                   policy_state, slept, prev_outcome>>
    /\ UNCHANGED <<drcVars, extVars>>

\* variant: the controls are not passed on as last_control
store_variables_NoControl(variables, controls) == variables

\* MonitorDataEntity.store_variables: what the Monitor's variables become,
\* monitor.update_variables(self.variables, last_control=self.controls)
store_variables(variables, controls) ==
    [variables EXCEPT !.last_control = controls]

\* HostPolicy.inquire_guest: the Inquiry built from the entity's variables,
\* last-alloc being entity.get_var('last_control', {})
MessageInquiry(variables, grace) ==
    [last_alloc |-> variables.last_control, grace |-> grace]

\* the controls/variables log records and entity.store_variables(), then
\* the submission of the final notify jobs
HP_Store ==
    /\ hp_pc = "control"
    /\ ctrl_idx > Len(resources)
    /\ mon_vars' = [g \in Guests |-> store_variables(ent_vars[g], ent_controls[g])]
    /\ IF should_run
       THEN /\ hp_pc' = "final_notify"
            /\ task' = [g \in Guests |-> "final"]
            /\ UNCHANGED prev_outcome
       ELSE EndCycle("terminated") /\ UNCHANGED task
    /\ UNCHANGED <<should_run, host_ready, cfgVars, now, inquiry_time, notify_start,
                   remaining_grace, sleep_until, task_res, ent_vars, ent_controls,
                   cur_mem, apply_pending, ctrl_idx, prov_notify, final_notify,
                   set_memory, ctrl_arg, policy_state, slept>>
    /\ UNCHANGED <<drcVars, extVars>>

\* one executor job running notify_guest(g, grace_period=None);
\* whatever the guest replies, the job only logs and returns
FinalNotifyTask(g) ==
    /\ task[g] = "final"
    /\ final_notify' = [final_notify EXCEPT ![g] =
           [sent |-> TRUE, alloc |-> NotifyAlloc(ent_controls[g]),
            grace |-> None]]
    /\ task' = [task EXCEPT ![g] = "done"]
    /\ UNCHANGED <<should_run, host_ready, cfgVars, hp_pc, now, inquiry_time,
                   notify_start, remaining_grace, sleep_until, task_res, ent_vars,
                   ent_controls, mon_vars, cur_mem, apply_pending, ctrl_idx,
                   prov_notify, set_memory, ctrl_arg, policy_state, slept, prev_outcome>>
    /\ UNCHANGED <<drcVars, extVars>>

\* the final parallel_for_each_guest returns, and with it do_controls
HP_FinalJoin ==
    /\ hp_pc = "final_notify"
    /\ AllJobsReturned(task)
    /\ EndCycle("completed")
    /\ apply_pending' = apply_pending - Len(resources)
    /\ UNCHANGED <<should_run, host_ready, cfgVars, now, inquiry_time, notify_start,
                   remaining_grace, sleep_until, task, task_res, ent_vars, ent_controls,
                   mon_vars, cur_mem, ctrl_idx, prov_notify,
                   final_notify, set_memory, ctrl_arg, policy_state, slept>>
    /\ UNCHANGED <<drcVars, extVars>>

\* self.terminable_sleep(self.interval - (time.time() - start))
HP_IntervalSleep ==
    /\ hp_pc = "cycle_end"
    /\ IF SleepBlocks(interval - now) /\ should_run
       THEN hp_pc' = "interval_sleep" /\ sleep_until' = interval
       ELSE hp_pc' = "loop" /\ sleep_until' = now
    /\ UNCHANGED <<should_run, host_ready, cfgVars, now, inquiry_time, notify_start,
                   remaining_grace, task, task_res, ent_vars, ent_controls,
                   mon_vars, cur_mem, apply_pending, ctrl_idx, prov_notify,
                   final_notify, set_memory, ctrl_arg, policy_state, slept, prev_outcome>>
    /\ UNCHANGED <<drcVars, extVars>>

\* the interval sleep returns: its time is over or termination was signalled
HP_IntervalWake ==
    /\ hp_pc = "interval_sleep"
    /\ now >= sleep_until \/ ~should_run
    /\ hp_pc' = "loop"
    /\ UNCHANGED <<should_run, host_ready, cfgVars, now, inquiry_time, notify_start,
                   remaining_grace, sleep_until, task, task_res, ent_vars,
                   ent_controls, mon_vars, cur_mem, apply_pending, ctrl_idx,
                   prov_notify, final_notify, set_memory, ctrl_arg, policy_state, slept,
                   prev_outcome>>
    /\ UNCHANGED <<drcVars, extVars>>

HostNext ==
    \/ Terminate
    \/ HostMonitorReady
    \/ Tick
    \/ HP_Exit
    \/ HP_StartCycle
    \/ \E g \in Guests : InquireTask(g)
    \/ HP_InquireJoin
    \/ HP_ApplyPolicy
    \/ HP_NotifyStart
    \/ \E g \in Guests : NotifyTask(g)
    \/ HP_NotifyJoin
    \/ HP_GraceSleep
    \/ HP_GraceWake
    \/ HP_ApplyControl
    \/ HP_Store
    \/ \E g \in Guests : FinalNotifyTask(g)
    \/ HP_FinalJoin
    \/ HP_IntervalSleep
    \/ HP_IntervalWake

\* ------------------------------------------- DynamicResourceControl: data
NoTarget == [isNone |-> TRUE, alloc |-> None, grace |-> None]

\* what request_target can return: None (the request failed), or the last
\* notification with its memory alloc (None when the notification carries
\* none) and its remaining grace-period (None, or at least 0.01 s)
Targets ==
    {NoTarget} \cup [isNone : {FALSE}, alloc : (0..MaxMem) \cup {None},
                     grace : (1..MaxDrcGrace) \cup {None}]

\* what get_stats can report as available memory
AvailVals == 1..MaxMem

NoReturn == [branch |-> "none", wait |-> None, target_memory |-> None, alloc |-> None]

NoEntry == [memory_diff |-> InvalidMemory, available_memory |-> InvalidMemory]

\* variant: the first diff without the clamp at zero
FirstDiff_NoClamp(tg, diff, avail) ==
    IF ~is_valid_mem(diff) /\ tg.grace = None
    THEN tg.alloc - avail
    ELSE diff

\* _update_memory: self.memory_diff after the first-notification block
FirstDiff(tg, diff, avail) ==
    IF ~is_valid_mem(diff) /\ tg.grace = None
    THEN Max(0, tg.alloc - avail)
    ELSE diff

\* variant: a grace equal to decrease_mem_time still defers the shrink
UpdateMemoryBranch_Ge(tg, diff, avail, dec) ==
    IF tg.isNone THEN "no_target"
    ELSE IF tg.alloc = None THEN "no_alloc"
    ELSE IF ~is_valid_mem(FirstDiff(tg, diff, avail)) THEN "uninit"
    ELSE LET memory_alloc == tg.alloc - FirstDiff(tg, diff, avail)
         IN IF is_memory_close(memory_alloc, avail, 1) THEN "close"
            ELSE IF memory_alloc > avail /\ tg.grace # None THEN "grow_defer"
            ELSE IF memory_alloc > avail THEN "grow_now"
            ELSE IF tg.grace # None /\ tg.grace >= dec THEN "shrink_defer"
            ELSE "shrink_now"

\* _update_memory: the branch taken
UpdateMemoryBranch(tg, diff, avail, dec) ==
    IF tg.isNone THEN "no_target"
    ELSE IF tg.alloc = None THEN "no_alloc"
    ELSE IF ~is_valid_mem(FirstDiff(tg, diff, avail)) THEN "uninit"
    ELSE LET memory_alloc == tg.alloc - FirstDiff(tg, diff, avail)
         IN IF is_memory_close(memory_alloc, avail, 1) THEN "close"
            ELSE IF memory_alloc > avail /\ tg.grace # None THEN "grow_defer"
            ELSE IF memory_alloc > avail THEN "grow_now"
            ELSE IF tg.grace # None /\ tg.grace > dec THEN "shrink_defer"
            ELSE "shrink_now"

\* variant: the shrink target is the requested alloc, not the adjusted one
UpdateMemoryReturn_Unadjusted(tg, diff, avail, dec, wt) ==
    LET b == UpdateMemoryBranch(tg, diff, avail, dec)
        memory_alloc == IF b \in {"no_target", "no_alloc", "uninit"} THEN None
                        ELSE tg.alloc - FirstDiff(tg, diff, avail)
    IN [branch |-> b,
        alloc |-> memory_alloc,
        wait |-> CASE b = "grow_defer" -> tg.grace
                   [] b = "shrink_defer" -> tg.grace - dec
                   [] OTHER -> wt,
        target_memory |-> IF b = "shrink_now" THEN tg.alloc ELSE None]

\* _update_memory: (wait_time, target_memory) of every branch but grow_now
UpdateMemoryReturn(tg, diff, avail, dec, wt) ==
    LET b == UpdateMemoryBranch(tg, diff, avail, dec)
        memory_alloc == IF b \in {"no_target", "no_alloc", "uninit"} THEN None
                        ELSE tg.alloc - FirstDiff(tg, diff, avail)
    IN [branch |-> b,
        alloc |-> memory_alloc,
        wait |-> CASE b = "grow_defer" -> tg.grace
                   [] b = "shrink_defer" -> tg.grace - dec
                   [] OTHER -> wt,
        target_memory |-> IF b = "shrink_now" THEN memory_alloc ELSE None]

\* _update_memory, grow_now branch after poll_stats returned
GrowNowReturn(memory_alloc, diff, polled, stable_time, wt) ==
    IF is_memory_close(memory_alloc, polled, 1)
       \/ stable_time * 10 + 1 > STATS_POLL_TIMEOUT * 10
    THEN [branch |-> "grow_now", alloc |-> memory_alloc, wait |-> wt,
          target_memory |-> memory_alloc]
    ELSE [branch |-> "grow_now", alloc |-> memory_alloc, wait |-> 1,
          target_memory |-> memory_alloc]

\* variant: the diff is recomputed whatever the poll found
GrowNowDiff_Always(memory_alloc, diff, polled, stable_time) ==
    Max(0, memory_alloc + diff - polled)

\* _update_memory, grow_now branch: self.memory_diff after the poll
GrowNowDiff(memory_alloc, diff, polled, stable_time) ==
    IF is_memory_close(memory_alloc, polled, 1)
       \/ stable_time * 10 + 1 > STATS_POLL_TIMEOUT * 10
    THEN Max(0, memory_alloc + diff - polled)
    ELSE diff

\* variant: the host's hint is applied without the min against available
ClampTarget_NoMin(target_memory, avail) ==
    IF target_memory # None /\ target_memory > 0
    THEN target_memory
    ELSE avail

\* variant: without a target the value of target_memory is passed on as is
ClampTarget_PassNone(target_memory, avail) ==
    IF target_memory # None /\ target_memory > 0
    THEN Min(target_memory, avail)
    ELSE target_memory

\* logged_run: the mem_total handed to change_mem_func
ClampTarget(target_memory, avail) ==
    IF target_memory # None /\ target_memory > 0
    THEN Min(target_memory, avail)
    ELSE avail

\* poll_stats: the loop condition
PollContinues(t, tgt, cur) ==
    t < STATS_POLL_TIMEOUT /\ ~is_memory_close(tgt, cur, 1)

\* ------------------------------------------ DynamicResourceControl: Init
DrcConfigured ==
    \E w \in 0..MaxWait, d \in (0 - 1)..MaxDecrease :
       /\ wait_timeout = 10 * Max(1, w)
       /\ decrease_mem_time = Max(0, d)

DrcFresh ==
    /\ drc_pc = "request"
    /\ drc_should_run = TRUE
    /\ memory_diff = InvalidMemory
    /\ available_memory = InvalidMemory
    /\ wait_time = wait_timeout
    /\ target = NoTarget
    /\ poll_t = 0
    /\ poll_stable = 0
    /\ poll_cur = InvalidMemory
    /\ um_entry = NoEntry
    /\ um_ret = NoReturn
    /\ change_arg = None
    /\ app_target_thread = None
    /\ diff_thread = "none"

DrcInit == DrcConfigured /\ DrcFresh

\* the guest side as the host-side specification sees it: one fixed instance
DrcIdle ==
    /\ wait_timeout = 10
    /\ decrease_mem_time = 10
    /\ DrcFresh

\* the host side as the guest-side specification sees it: one fixed instance
HostIdle ==
    /\ HostInit
    /\ host_ready = TRUE
    /\ interval = 1
    /\ cfg_grace = 0

drcCfg == <<wait_timeout, decrease_mem_time>>

\* ---------------------------------------- DynamicResourceControl actions
\* Terminable.terminate() on the flag the control thread shares
DRC_Terminate ==
    /\ drc_should_run
    /\ drc_should_run' = FALSE
    /\ UNCHANGED <<drc_pc, drcCfg, memory_diff, available_memory, wait_time, target,
                   poll_t, poll_stable, poll_cur, um_entry, um_ret, change_arg,
                   app_target_thread, diff_thread>>
    /\ UNCHANGED <<hostVars, extVars>>

\* _update_memory returns ret to logged_run
ReturnToRun(ret) ==
    /\ um_ret' = ret
    /\ wait_time' = ret.wait
    /\ drc_pc' = "updated"
    /\ change_arg' = None
    /\ app_target_thread' = None

\* logged_run after _update_memory returned: the should_run check, the
\* clamp, change_mem_func and the report of the application target
DRC_Apply ==
    /\ drc_pc = "updated"
    /\ IF ~drc_should_run
       THEN /\ drc_pc' = "ended"
            /\ UNCHANGED <<change_arg, app_target_thread>>
       ELSE /\ drc_pc' = "iter_end"
            /\ change_arg' = ClampTarget(um_ret.target_memory, available_memory)
            /\ \E outcome \in {"raise", "none", "nan", "value"} :
                  app_target_thread' =
                      CASE outcome = "value" -> change_arg'
                        [] outcome = "nan" -> InvalidMemory
                        [] OTHER -> None
    /\ UNCHANGED <<drc_should_run, drcCfg, memory_diff, available_memory, wait_time,
                   target, poll_t, poll_stable, poll_cur, um_entry, um_ret,
                   diff_thread>>
    /\ UNCHANGED <<hostVars, extVars>>

\* while self.should_run: false, the thread ends
DRC_Exit ==
    /\ drc_pc = "request"
    /\ ~drc_should_run
    /\ drc_pc' = "ended"
    /\ UNCHANGED <<drc_should_run, drcCfg, memory_diff, available_memory, wait_time,
                   target, poll_t, poll_stable, poll_cur, um_entry, um_ret,
                   change_arg, app_target_thread, diff_thread>>
    /\ UNCHANGED <<hostVars, extVars>>

\* the end of the loop body: the locals of the iteration are dropped
DRC_IterEnd ==
    /\ drc_pc = "iter_end"
    /\ drc_pc' = "request"
    /\ target' = NoTarget
    /\ poll_t' = 0
    /\ poll_stable' = 0
    /\ poll_cur' = InvalidMemory
    /\ um_entry' = NoEntry
    /\ um_ret' = NoReturn
    /\ change_arg' = None
    /\ app_target_thread' = None
    /\ UNCHANGED <<drc_should_run, drcCfg, memory_diff, available_memory, wait_time,
                   diff_thread>>
    /\ UNCHANGED <<hostVars, extVars>>

\* get_stats() returned None: memory_stats.get raises, the thread dies
DRC_StatsFail ==
    /\ drc_pc = "request"
    /\ drc_should_run
    /\ \E tg \in Targets : target' = tg
    /\ drc_pc' = "dead"
    /\ um_entry' = NoEntry
    /\ um_ret' = NoReturn
    /\ change_arg' = None
    /\ app_target_thread' = None
    /\ UNCHANGED <<drc_should_run, drcCfg, memory_diff, available_memory, wait_time,
                   poll_t, poll_stable, poll_cur, diff_thread>>
    /\ UNCHANGED <<hostVars, extVars>>

\* one iteration of logged_run: request_target, get_stats, _update_memory
\* (up to its return, or up to its call of poll_stats) and the rest of the
\* iteration when _update_memory returned
DRC_Tick ==
    /\ drc_pc = "request"
    /\ drc_should_run
    /\ \E tg \in Targets, avail \in AvailVals :
          LET b == UpdateMemoryBranch(tg, memory_diff, avail, decrease_mem_time)
              first == ~tg.isNone /\ tg.alloc # None
                       /\ ~is_valid_mem(memory_diff) /\ tg.grace = None
              diff1 == IF first THEN FirstDiff(tg, memory_diff, avail) ELSE memory_diff
          IN /\ target' = tg
             /\ available_memory' = avail
             /\ um_entry' = [memory_diff |-> memory_diff, available_memory |-> avail]
             /\ memory_diff' = diff1
             /\ diff_thread' = IF first THEN "started" ELSE diff_thread
             /\ IF b = "grow_now"
                THEN /\ drc_pc' = "poll"
                     /\ poll_t' = 0
                     /\ poll_stable' = 0
                     /\ poll_cur' = avail
                     /\ um_ret' = NoReturn
                     /\ change_arg' = None
                     /\ app_target_thread' = None
                     /\ UNCHANGED wait_time
                ELSE /\ ReturnToRun(UpdateMemoryReturn(tg, memory_diff, avail,
                                                      decrease_mem_time, wait_timeout))
                     /\ UNCHANGED <<poll_t, poll_stable, poll_cur>>
    /\ UNCHANGED <<drc_should_run, drcCfg>>
    /\ UNCHANGED <<hostVars, extVars>>

\* poll_stats: one pass of the loop body (sleep 0.1 s, read the statistics)
DRC_PollStep ==
    /\ drc_pc = "poll"
    /\ PollContinues(poll_t, target.alloc - memory_diff, poll_cur)
    /\ \E new_value \in AvailVals :
          /\ poll_cur' = new_value
          /\ poll_stable' = IF ~is_memory_close(new_value, poll_cur, 1)
                            THEN poll_t + 1 ELSE poll_stable
    /\ poll_t' = poll_t + 1
    /\ UNCHANGED <<drc_pc, drc_should_run, drcCfg, memory_diff, available_memory,
                   wait_time, target, um_entry, um_ret, change_arg,
                   app_target_thread, diff_thread>>
    /\ UNCHANGED <<hostVars, extVars>>

\* poll_stats returns; the rest of _update_memory and of the iteration
DRC_PollDone ==
    /\ drc_pc = "poll"
    /\ ~PollContinues(poll_t, target.alloc - memory_diff, poll_cur)
    /\ available_memory' = poll_cur
    /\ memory_diff' = GrowNowDiff(target.alloc - memory_diff, memory_diff, poll_cur,
                                  poll_t - poll_stable)
    /\ ReturnToRun(GrowNowReturn(target.alloc - memory_diff, memory_diff, poll_cur,
                                poll_t - poll_stable, wait_timeout))
    /\ UNCHANGED <<drc_should_run, drcCfg, target, poll_t, poll_stable, poll_cur,
                   um_entry, diff_thread>>
    /\ UNCHANGED <<hostVars, extVars>>

\* poll_stats: get_stats() returned None, stats[field] raises, the thread dies
DRC_PollFail ==
    /\ drc_pc = "poll"
    /\ PollContinues(poll_t, target.alloc - memory_diff, poll_cur)
    /\ drc_pc' = "dead"
    /\ UNCHANGED <<drc_should_run, drcCfg, memory_diff, available_memory, wait_time,
                   target, poll_t, poll_stable, poll_cur, um_entry, um_ret,
                   change_arg, app_target_thread, diff_thread>>
    /\ UNCHANGED <<hostVars, extVars>>

\* the update_resource_diff thread runs: it sends the current memory_diff
DRC_ResourceDiffThread ==
    /\ diff_thread = "started"
    /\ diff_thread' = "sent"
    /\ UNCHANGED <<drc_pc, drc_should_run, drcCfg, memory_diff, available_memory,
                   wait_time, target, poll_t, poll_stable, poll_cur, um_entry,
                   um_ret, change_arg, app_target_thread>>
    /\ UNCHANGED <<hostVars, extVars>>

DrcNext ==
    \/ DRC_Terminate
    \/ DRC_Exit
    \/ DRC_IterEnd
    \/ DRC_StatsFail
    \/ DRC_Tick
    \/ DRC_PollStep
    \/ DRC_PollDone
    \/ DRC_PollFail
    \/ DRC_Apply
    \/ DRC_ResourceDiffThread

\* ------------------------------------------------ host daemon: data
\* the Terminable objects of the daemon: an outer shared Terminable, the
\* MomHostDaemon and its three top-level threads
Terminables == {"X", "D", "GM", "HM", "HP"}

TopThreads == {"GM", "HM", "HP"}

\* the Events: one per Terminable that creates its own, "M" for a
\* GuestMonitor that would
Events == Terminables \cup {"M"}

\* hypervisor domain ids, and the GuestMonitor objects in construction order
Domains == 1..MaxDomains

Instances == 1..MaxInst

Unborn == [id |-> 0, st |-> "unborn", ev |-> "None", ready |-> FALSE,
           acked |-> FALSE, alive_after_init |-> FALSE, collected |-> FALSE]

\* variant: every Terminable creates an Event of its own
Terminable_init_Own(self, shared_terminable, evs) == self

\* Terminable.__init__ / share_termination: the Event the object refers to
Terminable_init(self, shared_terminable, evs) ==
    IF shared_terminable = "None" THEN self ELSE evs[shared_terminable]

\* Terminable.should_run
ShouldRun(o) == ~ev_set[ev_of[o]]

MonShouldRun(n) == ~ev_set[mon[n].ev]

\* threads_ok(self.threads)
threads_ok == \A t \in TopThreads : th[t] = "running"

\* the record of the terminate() calls: the callers so far, and whether
\* one of them found the Event already set
LogTerminate(caller, ev) ==
    [callers |-> term_log.callers \cup {caller},
     repeated |-> term_log.repeated \/ ev_set[ev]]

\* variant: interrogate() does not look at the ready flag
MonitorInterrogate_Always(m) == m.st # "unborn"

\* Monitor.interrogate(): is an Entity returned (not None)
MonitorInterrogate(m) == m.ready

\* spawn_guest_monitors: if guest.is_alive(): if guest_id not in
\* self.guest_monitors: self.guest_monitors[guest_id] = guest
Register(r, guest_id, n, alive) ==
    IF alive /\ r[guest_id] = 0 THEN [r EXCEPT ![guest_id] = n] ELSE r

\* set(domain_list) - set(self.guest_monitors)
SpawnList(domain_list, r) == {i \in domain_list : r[i] = 0}

\* variant: check_threads removes the guests whose thread died only
CheckThreads_DeadOnly(r, domain_list) ==
    [i \in Domains |->
        IF r[i] # 0 /\ mon[r[i]].st = "dead" THEN 0 ELSE r[i]]

\* check_threads: the table it leaves
CheckThreads(r, domain_list) ==
    [i \in Domains |->
        IF r[i] # 0 /\ (mon[r[i]].st = "dead" \/ i \notin domain_list) THEN 0 ELSE r[i]]

\* check_threads: the monitors it calls terminate() on
Stale(r, domain_list) ==
    {r[i] : i \in {j \in Domains : r[j] # 0 /\ mon[r[j]].st # "dead" /\ j \notin domain_list}}

\* GuestMonitor.check_guest_readiness: does it reach self._set_ready()
\* (wait_for_server raises when it gave up while should_run; the Notify
\* must come back acknowledged)
check_guest_readiness(server, reply, running) ==
    /\ ~(server = "gave_up" /\ running)
    /\ ~send_receive_message(reply).raised

\* MomHostDaemon.__init__, before run_mom
DaemonInit ==
    /\ shared_arg \in {"None", "X"}
    /\ ev_of = [o \in Terminables |->
                  IF o = "X" THEN "X"
                  ELSE Terminable_init(o, shared_arg, [x \in {"X"} |-> "X"])]
    /\ ev_set = [e \in Events |-> FALSE]
    /\ th = [t \in TopThreads |-> "new"]
    /\ dm_pc = "start"
    /\ gm_pc = "idle"
    /\ gm_dom = {}
    /\ spawn_list = {}
    /\ reg = [i \in Domains |-> 0]
    /\ mon = [n \in Instances |-> Unborn]
    /\ interrogated = {}
    /\ term_log = [callers |-> {}, repeated |-> FALSE]

\* the daemon as the other specifications see it: constructed, not run
DaemonIdle == DaemonInit /\ shared_arg = "X"

\* --------------------------------------------- host daemon: actions
\* terminate() called from outside (a signal handler, the embedding
\* program) on the shared Terminable or on the daemon
TerminateCall ==
    /\ \E o \in {"X", "D"} :
          /\ o = "X" => shared_arg = "X"
          /\ ev_set' = [ev_set EXCEPT ![ev_of[o]] = TRUE]
          /\ term_log' = LogTerminate("external", ev_of[o])
    /\ UNCHANGED <<shared_arg, ev_of, th, dm_pc, gm_pc, gm_dom, spawn_list, reg,
                   mon, interrogated>>
    /\ UNCHANGED <<hostVars, drcVars, gsVars, paceVars, auxVars>>

\* run_mom: for t in self.threads: if not t.is_alive() and self.should_run: t.start()
DM_Start ==
    /\ dm_pc = "start"
    /\ th' = [t \in TopThreads |-> IF ShouldRun("D") THEN "running" ELSE th[t]]
    /\ dm_pc' = "loop"
    /\ UNCHANGED <<shared_arg, ev_of, ev_set, gm_pc, gm_dom, spawn_list, reg, mon,
                   interrogated, term_log>>
    /\ UNCHANGED <<hostVars, drcVars, gsVars, paceVars, auxVars>>

\* run_mom: while self.should_run
DM_Loop ==
    /\ dm_pc = "loop"
    /\ dm_pc' = IF ShouldRun("D") THEN "sleep" ELSE "terminate"
    /\ UNCHANGED <<shared_arg, ev_of, ev_set, th, gm_pc, gm_dom, spawn_list, reg, mon,
                   interrogated, term_log>>
    /\ UNCHANGED <<hostVars, drcVars, gsVars, paceVars, auxVars>>

\* run_mom: terminable_sleep(interval) returns; if not threads_ok: break
DM_Check ==
    /\ dm_pc = "sleep"
    /\ dm_pc' = IF threads_ok THEN "loop" ELSE "terminate"
    /\ UNCHANGED <<shared_arg, ev_of, ev_set, th, gm_pc, gm_dom, spawn_list, reg, mon,
                   interrogated, term_log>>
    /\ UNCHANGED <<hostVars, drcVars, gsVars, paceVars, auxVars>>

\* run_mom: self.terminate()
DM_Terminate ==
    /\ dm_pc = "terminate"
    /\ ev_set' = [ev_set EXCEPT ![ev_of["D"]] = TRUE]
    /\ term_log' = LogTerminate("daemon", ev_of["D"])
    /\ dm_pc' = "join"
    /\ UNCHANGED <<shared_arg, ev_of, th, gm_pc, gm_dom, spawn_list, reg, mon,
                   interrogated>>
    /\ UNCHANGED <<hostVars, drcVars, gsVars, paceVars, auxVars>>

\* run_mom: for t in self.threads: if t.is_alive(): t.join()
DM_Join ==
    /\ dm_pc = "join"
    /\ \A t \in TopThreads : th[t] # "running"
    /\ dm_pc' = "done"
    /\ UNCHANGED <<shared_arg, ev_of, ev_set, th, gm_pc, gm_dom, spawn_list, reg, mon,
                   interrogated, term_log>>
    /\ UNCHANGED <<hostVars, drcVars, gsVars, paceVars, auxVars>>

\* LoggedThread.run: an exception out of logged_run ends a top-level thread
ThreadDie(t) ==
    /\ th[t] = "running"
    /\ th' = [th EXCEPT ![t] = "ended"]
    /\ UNCHANGED <<shared_arg, ev_of, ev_set, dm_pc, gm_pc, gm_dom, spawn_list, reg,
                   mon, interrogated, term_log>>
    /\ UNCHANGED <<hostVars, drcVars, gsVars, paceVars, auxVars>>

\* HostMonitor / HostPolicy logged_run: while self.should_run is over
ThreadStop(t) ==
    /\ t # "GM"
    /\ th[t] = "running"
    /\ ~ShouldRun(t)
    /\ th' = [th EXCEPT ![t] = "ended"]
    /\ UNCHANGED <<shared_arg, ev_of, ev_set, dm_pc, gm_pc, gm_dom, spawn_list, reg,
                   mon, interrogated, term_log>>
    /\ UNCHANGED <<hostVars, drcVars, gsVars, paceVars, auxVars>>

\* GuestManager.logged_run: the loop is over; wait_for_guest_monitors
GM_Stop ==
    /\ th["GM"] = "running"
    /\ gm_pc = "idle"
    /\ ~ShouldRun("GM")
    /\ reg' = [i \in Domains |-> 0]
    /\ th' = [th EXCEPT !["GM"] = "ended"]
    /\ UNCHANGED <<shared_arg, ev_of, ev_set, dm_pc, gm_pc, gm_dom, spawn_list,
                   mon, interrogated, term_log>>
    /\ UNCHANGED <<hostVars, drcVars, gsVars, paceVars, auxVars>>

\* GuestManager.logged_run: listDomainsID() and the snapshot of the spawn
\* list (a None domain list leaves everything as it is)
GM_Poll ==
    /\ th["GM"] = "running"
    /\ gm_pc = "idle"
    /\ ShouldRun("GM")
    /\ \E domain_list \in SUBSET Domains :
          /\ Cardinality(SpawnList(domain_list, reg)) <=
                Cardinality({n \in Instances : mon[n].st = "unborn"})
          /\ gm_dom' = domain_list
          /\ spawn_list' = SpawnList(domain_list, reg)
    /\ gm_pc' = "spawn"
    /\ UNCHANGED <<shared_arg, ev_of, ev_set, th, dm_pc, reg, mon, interrogated,
                   term_log>>
    /\ UNCHANGED <<hostVars, drcVars, gsVars, paceVars, auxVars>>

\* spawn_guest_monitors: one GuestMonitor(config, guest_id, ...,
\* shared_terminable=self): no guest info raises ValueError out of
\* logged_run; otherwise the thread is started and may be dead already
GM_Spawn ==
    /\ th["GM"] = "running"
    /\ gm_pc = "spawn"
    /\ \E guest_id \in spawn_list, outcome \in {"no_info", "alive", "died"} :
          LET n == CHOOSE k \in Instances :
                      /\ mon[k].st = "unborn"
                      /\ \A j \in Instances : mon[j].st = "unborn" => k <= j
          IN IF outcome = "no_info"
             THEN /\ th' = [th EXCEPT !["GM"] = "ended"]
                  /\ UNCHANGED <<mon, reg, spawn_list>>
             ELSE /\ mon' = [mon EXCEPT ![n] =
                        [Unborn EXCEPT !.id = guest_id,
                                       !.st = IF outcome = "alive" THEN "handshake"
                                              ELSE "dead",
                                       !.ev = Terminable_init("M", "GM", ev_of),
                                       !.alive_after_init = (outcome = "alive")]]
                  /\ reg' = Register(reg, guest_id, n, outcome = "alive")
                  /\ spawn_list' = spawn_list \ {guest_id}
                  /\ UNCHANGED th
    /\ UNCHANGED <<shared_arg, ev_of, ev_set, dm_pc, gm_pc, gm_dom, interrogated,
                   term_log>>
    /\ UNCHANGED <<hostVars, drcVars, gsVars, paceVars, auxVars>>

\* check_threads(domain_list), under guest_monitors_lock
GM_Check ==
    /\ th["GM"] = "running"
    /\ gm_pc = "spawn"
    /\ spawn_list = {}
    /\ reg' = CheckThreads(reg, gm_dom)
    /\ ev_set' = [e \in Events |->
                    ev_set[e] \/ \E n \in Stale(reg, gm_dom) : mon[n].ev = e]
    /\ term_log' = IF Stale(reg, gm_dom) = {} THEN term_log
                   ELSE LogTerminate("check_threads", ev_of["GM"])
    /\ gm_pc' = "idle"
    /\ UNCHANGED <<shared_arg, ev_of, th, dm_pc, gm_dom, spawn_list, mon,
                   interrogated>>
    /\ UNCHANGED <<hostVars, drcVars, gsVars, paceVars, auxVars>>

\* GuestMonitor.logged_run: check_guest_readiness()
Mon_Handshake(n) ==
    /\ mon[n].st = "handshake"
    /\ \E server \in {"ok", "gave_up", "terminated"},
          reply \in {r \in Replies : r.resp = EmptyDict} :
          /\ server = "terminated" => ~MonShouldRun(n)
          /\ mon' = [mon EXCEPT ![n] =
                IF check_guest_readiness(server, reply, MonShouldRun(n))
                THEN [@ EXCEPT !.st = "collecting", !.ready = TRUE,
                               !.acked = (reply.transport = "ok" /\ reply.ack)]
                ELSE [@ EXCEPT !.st = "dead"]]
    /\ UNCHANGED <<shared_arg, ev_of, ev_set, th, dm_pc, gm_pc, gm_dom, spawn_list,
                   reg, interrogated, term_log>>
    /\ UNCHANGED <<hostVars, drcVars, gsVars, paceVars, auxVars>>

\* GuestMonitor.logged_run: one collect()
Mon_Collect(n) ==
    /\ mon[n].st = "collecting"
    /\ MonShouldRun(n)
    /\ mon' = [mon EXCEPT ![n].collected = TRUE]
    /\ UNCHANGED <<shared_arg, ev_of, ev_set, th, dm_pc, gm_pc, gm_dom, spawn_list,
                   reg, interrogated, term_log>>
    /\ UNCHANGED <<hostVars, drcVars, gsVars, paceVars, auxVars>>

\* GuestMonitor.logged_run: the loop is over, or an exception ends the thread
Mon_End(n) ==
    /\ mon[n].st = "collecting"
    /\ mon' = [mon EXCEPT ![n].st = "dead"]
    /\ UNCHANGED <<shared_arg, ev_of, ev_set, th, dm_pc, gm_pc, gm_dom, spawn_list,
                   reg, interrogated, term_log>>
    /\ UNCHANGED <<hostVars, drcVars, gsVars, paceVars, auxVars>>

\* GuestManager.interrogate(), called by HostPolicy.do_controls
GM_Interrogate ==
    /\ th["HP"] = "running"
    /\ interrogated' =
          {reg[i] : i \in {j \in Domains : reg[j] # 0 /\ MonitorInterrogate(mon[reg[j]])}}
    /\ UNCHANGED <<shared_arg, ev_of, ev_set, th, dm_pc, gm_pc, gm_dom, spawn_list,
                   reg, mon, term_log>>
    /\ UNCHANGED <<hostVars, drcVars, gsVars, paceVars, auxVars>>

DaemonNext ==
    \/ TerminateCall
    \/ DM_Start
    \/ DM_Loop
    \/ DM_Check
    \/ DM_Terminate
    \/ DM_Join
    \/ \E t \in TopThreads : ThreadDie(t)
    \/ \E t \in TopThreads : ThreadStop(t)
    \/ GM_Stop
    \/ GM_Poll
    \/ GM_Spawn
    \/ GM_Check
    \/ \E n \in Instances : Mon_Handshake(n)
    \/ \E n \in Instances : Mon_Collect(n)
    \/ \E n \in Instances : Mon_End(n)
    \/ GM_Interrogate

\* ------------------------------------------- HostPolicy.logged_run pacing
\* HostPolicy.__init__: self.interval = max(config interval, 1.)
PolicyInterval(cfg) == IF cfg > MIN_POLICY_INTERVAL THEN cfg ELSE MIN_POLICY_INTERVAL

\* variant: terminable_sleep never blocks
PaceSleepBlocks_Never(timeout) == FALSE

\* Terminable.terminable_sleep: if timeout > self._minimal_sleep it waits
\* on the Event, otherwise it returns at once (timeout in hundredths)
PaceSleepBlocks(timeout) == timeout > DEFAULT_MINIMAL_SLEEP

PaceInit ==
    /\ pace_interval \in {PolicyInterval(cfg) : cfg \in 0..MaxPaceConfig}
    /\ pace_pc = "top"
    /\ pace_term = FALSE
    /\ pace_took = 0
    /\ pace_slept = 0
    /\ pace_gap = None

\* the pacing loop as the other specifications see it: not started
PaceIdle == PaceInit /\ pace_interval = MIN_POLICY_INTERVAL

\* terminate() from any thread sharing the Event
Pace_Terminate ==
    /\ pace_pc # "ended"
    /\ ~pace_term
    /\ pace_term' = TRUE
    /\ UNCHANGED <<pace_interval, pace_pc, pace_took, pace_slept, pace_gap>>
    /\ UNCHANGED <<hostVars, drcVars, gsVars, dmVars, auxVars>>

\* while self.should_run: start = time.time()
Pace_Start ==
    /\ pace_pc = "top"
    /\ ~pace_term
    /\ pace_pc' = "run"
    /\ pace_gap' = IF pace_gap = None /\ pace_took = 0 /\ pace_slept = 0
                   THEN pace_gap
                   ELSE pace_took + pace_slept
    /\ UNCHANGED <<pace_interval, pace_term, pace_took, pace_slept>>
    /\ UNCHANGED <<hostVars, drcVars, gsVars, dmVars, auxVars>>

\* while self.should_run is over: the executor is shut down
Pace_Exit ==
    /\ pace_pc = "top"
    /\ pace_term
    /\ pace_pc' = "ended"
    /\ UNCHANGED <<pace_interval, pace_term, pace_took, pace_slept, pace_gap>>
    /\ UNCHANGED <<hostVars, drcVars, gsVars, dmVars, auxVars>>

\* self.do_controls(), which takes some time, then the call
\* self.terminable_sleep(self.interval - (time.time() - start)) up to
\* the point where it blocks or returns
Pace_DoControls ==
    /\ pace_pc = "run"
    /\ \E d \in 1..MaxDuration :
          /\ pace_took' = d
          /\ pace_pc' = IF PaceSleepBlocks(pace_interval - d) THEN "sleep" ELSE "top"
    /\ pace_slept' = 0
    /\ UNCHANGED <<pace_interval, pace_term, pace_gap>>
    /\ UNCHANGED <<hostVars, drcVars, gsVars, dmVars, auxVars>>

\* self._termination_event.wait(timeout) returns: the timeout has passed,
\* or the Event is set (any time into the wait)
Pace_Wake ==
    /\ pace_pc = "sleep"
    /\ \E w \in 0..(pace_interval - pace_took) :
          /\ ~pace_term => w = pace_interval - pace_took
          /\ pace_slept' = w
    /\ pace_pc' = "top"
    /\ UNCHANGED <<pace_interval, pace_term, pace_took, pace_gap>>
    /\ UNCHANGED <<hostVars, drcVars, gsVars, dmVars, auxVars>>

PaceNext ==
    \/ Pace_Terminate
    \/ Pace_Start
    \/ Pace_Exit
    \/ Pace_DoControls
    \/ Pace_Wake

\* ------------------------------------------------- guest server: data

\* the Notify messages HostPolicy.notify_guest builds
NotifyMsgs == [kind : {"notify"}, alloc : Dicts, grace : (0..MaxGrace) \cup {None}]

\* is_new_notification: None while the key is absent, 1 for True, 0 for False
NoNotify == [present |-> FALSE, alloc |-> EmptyDict, grace |-> None,
             update_time |-> None, is_new_notification |-> None]

NoInquiryData == [present |-> FALSE, grace |-> None, update_time |-> None]

NoAppTarget == [present |-> FALSE, memory |-> None, update_time |-> None]

\* the log entry of a handled message: n alternates with every message, and
\* renotify tells a Notify without grace-period that repeated the alloc of
\* the provisional Notify stored before it
NoMessage == [kind |-> "none", n |-> 0, renotify |-> FALSE, answer |-> None]

Handled(kind, renotify) ==
    [kind |-> kind, n |-> 1 - gs_msg.n, renotify |-> renotify, answer |-> None]

\* config ['policy']['response-scripts']['memory']: a script of the
\* elapsed time, here one that gives a different size at every time
response_script(t) == 100 + 10 * t

\* variant: the reported resource diff is not added
PolicyInquiry_NoDiff(policy, grace, t) ==
    LET cur_time == IF policy.init_time = None THEN 0 ELSE t - policy.init_time
    IN response_script(IF grace # None /\ grace # 0
                       THEN cur_time + grace ELSE cur_time)

\* BaseGuestPolicy.inquiry at time t: the answer for memory
PolicyInquiry(policy, grace, t) ==
    LET cur_time == IF policy.init_time = None THEN 0 ELSE t - policy.init_time
        diff == IF policy.resource_diff["memory"] = None THEN 0
                ELSE policy.resource_diff["memory"]
    IN response_script(IF grace # None /\ grace # 0
                       THEN cur_time + grace ELSE cur_time) + diff

IsRenotify(notify_data, content) ==
    /\ notify_data.present
    /\ notify_data.grace # None
    /\ content.grace = None
    /\ content.alloc = notify_data.alloc

\* variant: the notification replaces data['notify'] instead of updating it
NotifyProcess_Replace(notify_data, content, t) ==
    [present |-> TRUE, alloc |-> content.alloc, grace |-> content.grace,
     update_time |-> t, is_new_notification |-> None]

\* MessageNotify.process: notify_data.update(self.content) and the update-time
NotifyProcess(notify_data, content, t) ==
    [notify_data EXCEPT !.present = TRUE, !.alloc = content.alloc,
                        !.grace = content.grace, !.update_time = t]

\* BaseGuestPolicy.notify
PolicyNotify(policy) == [policy EXCEPT !.notify_event = TRUE]

\* GuestServer.__init__ and BaseGuestPolicy.__init__
GuestInit ==
    /\ gs_clock = 0
    /\ gs_data = [notify |-> NoNotify, inquiry |-> NoInquiryData,
                  app_target |-> NoAppTarget]
    /\ gs_policy = [init_time |-> None, resource_diff |-> EmptyDict,
                    notify_event |-> FALSE]
    /\ gs_msg = NoMessage

\* ---------------------------------------------- guest server: messages
\* time passes on the guest
GS_Tick ==
    /\ gs_clock < MaxClock
    /\ gs_clock' = gs_clock + 1
    /\ UNCHANGED <<gs_data, gs_policy, gs_msg>>
    /\ UNCHANGED <<hostVars, drcVars, dmVars, paceVars, auxVars>>

\* process_message(MessageNotify(content))
GS_Notify ==
    /\ \E m \in NotifyMsgs :
          /\ gs_data' = [gs_data EXCEPT !.notify = NotifyProcess(gs_data.notify, m, gs_clock)]
          /\ gs_msg' = Handled("notify", IsRenotify(gs_data.notify, m))
    /\ gs_policy' = PolicyNotify(gs_policy)
    /\ UNCHANGED gs_clock
    /\ UNCHANGED <<hostVars, drcVars, dmVars, paceVars, auxVars>>

\* process_message(MessageInquiry(content)): the data entry,
\* BaseGuestPolicy.inquiry's first-call init_time and its answer
GS_Inquiry ==
    /\ \E g \in 0..MaxGrace :
          /\ gs_data' = [gs_data EXCEPT !.inquiry =
                 [present |-> TRUE, grace |-> g, update_time |-> gs_clock]]
          /\ gs_msg' = [Handled("inquiry", FALSE) EXCEPT
                           !.answer = PolicyInquiry(gs_policy, g, gs_clock)]
    /\ gs_policy' = [gs_policy EXCEPT !.init_time =
           IF gs_policy.init_time = None THEN gs_clock ELSE gs_policy.init_time]
    /\ UNCHANGED gs_clock
    /\ UNCHANGED <<hostVars, drcVars, dmVars, paceVars, auxVars>>

\* process_message(MessageTargetAllocation): wait_for_notify returns whether
\* the event was set and clears it; the flag is written into data['notify']
GS_TargetAllocation ==
    /\ gs_data' = [gs_data EXCEPT !.notify =
           IF gs_data.notify.present
           THEN [gs_data.notify EXCEPT !.is_new_notification =
                    IF gs_policy.notify_event THEN 1 ELSE 0]
           ELSE gs_data.notify]
    /\ gs_policy' = [gs_policy EXCEPT !.notify_event = FALSE]
    /\ gs_msg' = Handled("target", FALSE)
    /\ UNCHANGED gs_clock
    /\ UNCHANGED <<hostVars, drcVars, dmVars, paceVars, auxVars>>

\* process_message(MessageUpdateResourceDiff(memory=diff))
GS_UpdateResourceDiff ==
    /\ \E d \in {0, 5} :
          gs_policy' = [gs_policy EXCEPT !.resource_diff =
                          [r \in Resources |-> IF r = "memory" THEN d ELSE @[r]]]
    /\ gs_msg' = Handled("diff", FALSE)
    /\ UNCHANGED <<gs_clock, gs_data>>
    /\ UNCHANGED <<hostVars, drcVars, dmVars, paceVars, auxVars>>

\* process_message(MessageUpdateApplicationTarget(memory=app_target))
GS_UpdateApplicationTarget ==
    /\ gs_data' = [gs_data EXCEPT !.app_target =
           [present |-> TRUE, memory |-> 5, update_time |-> gs_clock]]
    /\ gs_msg' = Handled("app_target", FALSE)
    /\ UNCHANGED <<gs_clock, gs_policy>>
    /\ UNCHANGED <<hostVars, drcVars, dmVars, paceVars, auxVars>>

GuestNext ==
    \/ GS_Tick
    \/ GS_Notify
    \/ GS_Inquiry
    \/ GS_TargetAllocation
    \/ GS_UpdateResourceDiff
    \/ GS_UpdateApplicationTarget

\* ------------------------------------------- one RPC: client and server
\* str(e) of the exceptions a message handler raises
Errors == {"e1", "e2"}

\* what message.process(data, monitor, policy) can do: return a dict,
\* return something that is not a dict (None, a number), or raise
HandlerOutcomes ==
    [kind : {"dict"}, val : Dicts, err : {""}]
    \cup [kind : {"nondict"}, val : {EmptyDict}, err : {""}]
    \cup [kind : {"raise"}, val : {EmptyDict}, err : Errors]

NoHandler == [kind |-> "none", val |-> EmptyDict, err |-> ""]

NoResponse == [present |-> FALSE, ack |-> FALSE, has_error |-> FALSE, error |-> "",
               resp_isdict |-> FALSE, resp |-> EmptyDict]

NoResult == [kind |-> "none", data |-> EmptyDict, err |-> ""]

\* variant: the server acknowledges a message whose handler raised
process_message_AckAlways(h) ==
    [present |-> TRUE, ack |-> TRUE, has_error |-> h.kind = "raise", error |-> h.err,
     resp_isdict |-> h.kind = "dict", resp |-> h.val]

\* GuestServer.process_message: the response_message ('process-time' left
\* out); response None is a response that is not a dict
process_message(h) ==
    IF h.kind = "raise"
    THEN [present |-> TRUE, ack |-> FALSE, has_error |-> TRUE, error |-> h.err,
          resp_isdict |-> FALSE, resp |-> EmptyDict]
    ELSE [present |-> TRUE, ack |-> TRUE, has_error |-> FALSE, error |-> "",
          resp_isdict |-> h.kind = "dict", resp |-> h.val]

\* what self.client.send_recv(msg) hands to send_receive_message
WireReply(wire, response) ==
    [transport |-> IF wire = "error" THEN "error" ELSE "ok",
     isdict |-> wire = "ok",
     ack |-> response.ack,
     resp_isdict |-> response.resp_isdict,
     resp |-> response.resp]

\* GuestClient.send_receive_message: the text the MessageError carries
MessageErrorText(wire, response) ==
    IF wire # "ok" THEN "Response must be a dict"
    ELSE IF ~response.ack
         THEN IF response.has_error THEN response.error ELSE "<no error message>"
    ELSE "Response data must be a dict"

\* GuestClient.send_receive_message as its caller sees it: a dict
\* returned, a MessageError, or the socket error of send_recv
ClientResult(wire, response) ==
    LET r == send_receive_message(WireReply(wire, response))
    IN IF ~r.raised THEN [kind |-> "return", data |-> r.data, err |-> ""]
       ELSE IF wire = "error" THEN [kind |-> "socket.error", data |-> EmptyDict, err |-> ""]
       ELSE [kind |-> "MessageError", data |-> EmptyDict,
             err |-> MessageErrorText(wire, response)]

RpcInit ==
    /\ rpc_pc = "idle"
    /\ rpc_n = 0
    /\ rpc_handler = NoHandler
    /\ rpc_response = NoResponse
    /\ rpc_wire = "ok"
    /\ rpc_result = NoResult

\* send_receive_message: self.client.send_recv(msg) has sent the message
Rpc_Send ==
    /\ rpc_pc = "idle"
    /\ rpc_n < MaxCalls
    /\ rpc_pc' = "sent"
    /\ rpc_handler' = NoHandler
    /\ rpc_response' = NoResponse
    /\ rpc_wire' = "ok"
    /\ UNCHANGED <<rpc_n, rpc_result>>
    /\ UNCHANGED <<coreVars, colVars, dsVars, meVars, chVars, tgVars, blVars, ctVars, slVars>>

\* _PickleRequestHandler.handle: reply = self.message_handler(msg), the
\* GuestServer's process_message
Rpc_Process ==
    /\ rpc_pc = "sent"
    /\ \E h \in HandlerOutcomes :
          /\ rpc_handler' = h
          /\ rpc_response' = process_message(h)
    /\ rpc_pc' = "replied"
    /\ UNCHANGED <<rpc_n, rpc_wire, rpc_result>>
    /\ UNCHANGED <<coreVars, colVars, dsVars, meVars, chVars, tgVars, blVars, ctVars, slVars>>

\* send_recv raises (connect, send, timeout, truncated reply), before or
\* after the server processed the message
Rpc_SocketError ==
    /\ rpc_pc \in {"sent", "replied"}
    /\ rpc_wire' = "error"
    /\ rpc_result' = ClientResult("error", rpc_response)
    /\ rpc_pc' = "done"
    /\ UNCHANGED <<rpc_n, rpc_handler, rpc_response>>
    /\ UNCHANGED <<coreVars, colVars, dsVars, meVars, chVars, tgVars, blVars, ctVars, slVars>>

\* send_recv returns an object that is not a dict (the peer is not a
\* GuestServer)
Rpc_Foreign ==
    /\ rpc_pc = "sent"
    /\ rpc_wire' = "foreign"
    /\ rpc_result' = ClientResult("foreign", rpc_response)
    /\ rpc_pc' = "done"
    /\ UNCHANGED <<rpc_n, rpc_handler, rpc_response>>
    /\ UNCHANGED <<coreVars, colVars, dsVars, meVars, chVars, tgVars, blVars, ctVars, slVars>>

\* send_recv returns the server's response_message
Rpc_Receive ==
    /\ rpc_pc = "replied"
    /\ rpc_result' = ClientResult("ok", rpc_response)
    /\ rpc_pc' = "done"
    /\ UNCHANGED <<rpc_n, rpc_handler, rpc_response, rpc_wire>>
    /\ UNCHANGED <<coreVars, colVars, dsVars, meVars, chVars, tgVars, blVars, ctVars, slVars>>

\* the caller goes on to its next call
Rpc_Done ==
    /\ rpc_pc = "done"
    /\ rpc_pc' = "idle"
    /\ rpc_n' = rpc_n + 1
    /\ UNCHANGED <<rpc_handler, rpc_response, rpc_wire, rpc_result>>
    /\ UNCHANGED <<coreVars, colVars, dsVars, meVars, chVars, tgVars, blVars, ctVars, slVars>>

RpcNext ==
    \/ Rpc_Send
    \/ Rpc_Process
    \/ Rpc_SocketError
    \/ Rpc_Foreign
    \/ Rpc_Receive
    \/ Rpc_Done

\* ------------------------------------------------------ Monitor.collect
\* the collectors of the Monitor, in config order
collectors == 1..MaxCollectors

\* keys of a statistics record, and the keys of a nested dict in it
TopKeys == {"a", "b"}

SubKeys == {"x", "y"}

\* a value under a key: absent, a plain value (named by the collector that
\* produced it), or a nested dict of such values (0: the key is absent)
Absent == [kind |-> "absent", v |-> 0, d |-> [k \in SubKeys |-> 0]]

Scalar(i) == [kind |-> "val", v |-> i, d |-> [k \in SubKeys |-> 0]]

NestedDicts(i) == {[kind |-> "dict", v |-> 0, d |-> f] : f \in [SubKeys -> {0, i}]}

EmptyRecord == [k \in TopKeys |-> Absent]

\* what collector i's collect() can do: raise, or return a dict (key "b"
\* never holds a nested dict)
CollectorOutputs(i) ==
    {[raised |-> TRUE, d |-> EmptyRecord]}
    \cup {[raised |-> FALSE, d |-> f] :
            f \in {g \in [TopKeys -> {Absent, Scalar(i)} \cup NestedDicts(i)] :
                     g["b"].kind # "dict"}}

\* variant: dict.update, the value of the later dict replaces the earlier
dict_recursive_update_Shallow(source, input_dict) ==
    [k \in TopKeys |-> IF input_dict[k].kind = "absent" THEN source[k] ELSE input_dict[k]]

\* dict_recursive_update(source, input_dict), for dicts nested once
dict_recursive_update(source, input_dict) ==
    [k \in TopKeys |->
        IF input_dict[k].kind = "absent" THEN source[k]
        ELSE IF source[k].kind = "dict" /\ input_dict[k].kind = "dict"
        THEN [source[k] EXCEPT !.d =
                [sk \in SubKeys |-> IF input_dict[k].d[sk] # 0 THEN input_dict[k].d[sk]
                                    ELSE source[k].d[sk]]]
        ELSE input_dict[k]]

\* variant: a collector that raises empties the record
CollectStep_Reset(data, o) ==
    IF o.raised THEN EmptyRecord ELSE dict_recursive_update(data, o.d)

\* collect: try: dict_recursive_update(data, c.collect()) except Exception
CollectStep(data, o) ==
    IF o.raised THEN data ELSE dict_recursive_update(data, o.d)

\* variant: the history is read without data_lock
LockFree_Always(lock) == TRUE

\* with self.data_lock: can it be acquired
LockFree(lock) == lock = "none"

\* variant: the Entity keeps the Monitor's deque itself
set_statistics_Alias(snapshot, live) == live

\* MonitorDataEntity.set_statistics appended the rows to the Entity's own
\* list: what that list holds once the Monitor's deque has changed
set_statistics(snapshot, live) == snapshot

ColInit ==
    /\ col_hist \in 0..MaxHist
    /\ col_pc = "idle"
    /\ col_n = 0
    /\ col_idx = 1
    /\ col_out = <<>>
    /\ col_data = EmptyRecord
    /\ col_stats = <<>>
    /\ col_lock = "none"
    /\ col_snapshot = [rows |-> <<>>, n |-> 0]
    /\ col_logged = 0

\* collect(): data = {}
Col_Begin ==
    /\ col_pc = "idle"
    /\ col_n < MaxCollects
    /\ col_pc' = "collecting"
    /\ col_idx' = 1
    /\ col_out' = <<>>
    /\ col_data' = EmptyRecord
    /\ UNCHANGED <<col_hist, col_n, col_stats, col_lock, col_snapshot, col_logged>>
    /\ UNCHANGED <<coreVars, rpcVars, dsVars, meVars, chVars, tgVars, blVars, ctVars, slVars>>

\* collect(): one turn of the loop over self.collectors
Col_Collector ==
    /\ col_pc = "collecting"
    /\ col_idx \in collectors
    /\ \E o \in CollectorOutputs(col_idx) :
          /\ col_data' = CollectStep(col_data, o)
          /\ col_out' = Append(col_out, o)
    /\ col_idx' = col_idx + 1
    /\ UNCHANGED <<col_hist, col_pc, col_n, col_stats, col_lock, col_snapshot, col_logged>>
    /\ UNCHANGED <<coreVars, rpcVars, dsVars, meVars, chVars, tgVars, blVars, ctVars, slVars>>

\* collect(): with self.data_lock: self.statistics.append(data)
Col_Append ==
    /\ col_pc = "collecting"
    /\ col_idx \notin collectors
    /\ LockFree(col_lock)
    /\ col_lock' = "collect"
    /\ col_stats' = Append(col_stats, col_n + 1)
    /\ col_n' = col_n + 1
    /\ col_pc' = "appended"
    /\ col_snapshot' = [col_snapshot EXCEPT !.rows = set_statistics(@, col_stats')]
    /\ UNCHANGED <<col_hist, col_idx, col_out, col_data, col_logged>>
    /\ UNCHANGED <<coreVars, rpcVars, dsVars, meVars, chVars, tgVars, blVars, ctVars, slVars>>

\* collect(): if len(self.statistics) > self.hist_len: popleft(); the
\* lock is released
Col_Evict ==
    /\ col_pc = "appended"
    /\ col_stats' = IF Len(col_stats) > col_hist THEN Tail(col_stats) ELSE col_stats
    /\ col_lock' = "none"
    /\ col_pc' = "pushed"
    /\ col_snapshot' = [col_snapshot EXCEPT !.rows = set_statistics(@, col_stats')]
    /\ UNCHANGED <<col_hist, col_n, col_idx, col_out, col_data, col_logged>>
    /\ UNCHANGED <<coreVars, rpcVars, dsVars, meVars, chVars, tgVars, blVars, ctVars, slVars>>

\* collect(): self.data_logger.append_data(data, ...); return data
Col_Log ==
    /\ col_pc = "pushed"
    /\ col_logged' = col_n
    /\ col_pc' = "idle"
    /\ UNCHANGED <<col_hist, col_n, col_idx, col_out, col_data, col_stats, col_lock,
                   col_snapshot>>
    /\ UNCHANGED <<coreVars, rpcVars, dsVars, meVars, chVars, tgVars, blVars, ctVars, slVars>>

\* Monitor.interrogate() from the policy thread: with self.data_lock:
\* ret.set_statistics(self.statistics)
Col_Interrogate ==
    /\ LockFree(col_lock)
    /\ col_snapshot' = [rows |-> col_stats, n |-> col_n]
    /\ UNCHANGED <<col_hist, col_pc, col_n, col_idx, col_out, col_data, col_stats,
                   col_lock, col_logged>>
    /\ UNCHANGED <<coreVars, rpcVars, dsVars, meVars, chVars, tgVars, blVars, ctVars, slVars>>

ColNext ==
    \/ Col_Begin
    \/ Col_Collector
    \/ Col_Append
    \/ Col_Evict
    \/ Col_Log
    \/ Col_Interrogate

\* a Monitor that has collected nothing
ColIdle == ColInit /\ col_hist = MaxHist

\* ------------------------------------------------ DeferredStartThread
\* three threads: M, S constructed with shared_deferred_start=M, and U on
\* its own
DsThreads == {"M", "S", "U"}

shared_deferred_start(t) == IF t = "S" THEN "M" ELSE "None"

\* the Terminable a thread was constructed with as shared_terminable: M
\* and S share the termination Event of E, a Terminable that is not a
\* thread (the Experiment); U has its own
shared_terminable(t) == IF t \in {"M", "S"} THEN "E" ELSE t

\* the threads whose _termination_event is the one of thread t
TermGroup(t) == {u \in DsThreads : shared_terminable(u) = shared_terminable(t)}

\* DeferredStartThread.main_deferred_start
main_deferred_start(t) ==
    IF shared_deferred_start(t) = "None" THEN t ELSE shared_deferred_start(t)

\* DeferredStartThread.__init__ / share_start: the thread's _start_timeout
StartTimeout(shared_timeout, start_timeout) ==
    IF start_timeout # None THEN start_timeout ELSE shared_timeout

\* variant: run() does not wait at all
WaitReturns_AtOnce(is_set, timeout) == TRUE

\* run(): self._start_event.wait(self._start_timeout) can return: the
\* Event is set, or there is a timeout, which runs out
WaitReturns(is_set, timeout) == is_set \/ timeout # None

DsInit ==
    /\ \E tm \in {None, 1}, ts \in {None, 1}, tu \in {None, 1} :
          ds_timeout = [t \in DsThreads |->
                          IF t = "M" THEN StartTimeout(None, tm)
                          ELSE IF t = "S" THEN StartTimeout(StartTimeout(None, tm), ts)
                          ELSE StartTimeout(None, tu)]
    /\ ds_started = {}
    /\ ds_term = [t \in DsThreads |-> FALSE]
    /\ ds_st = [t \in DsThreads |-> "new"]
    /\ ds_go = {}
    /\ ds_late = {}

\* Thread.start(): run() begins and waits for the start Event
DS_Start(t) ==
    /\ ds_st[t] = "new"
    /\ ds_st' = [ds_st EXCEPT ![t] = "waiting"]
    /\ UNCHANGED <<ds_timeout, ds_started, ds_term, ds_go, ds_late>>
    /\ UNCHANGED <<coreVars, rpcVars, colVars, meVars, chVars, tgVars, blVars, ctVars, slVars>>

\* go() on thread t: the call goes to the main object, which sets its Event
DS_Go(t) ==
    /\ t \notin ds_go
    /\ ds_started' = ds_started \cup {main_deferred_start(t)}
    /\ ds_go' = ds_go \cup {t}
    /\ UNCHANGED <<ds_timeout, ds_term, ds_st, ds_late>>
    /\ UNCHANGED <<coreVars, rpcVars, colVars, meVars, chVars, tgVars, blVars, ctVars, slVars>>

\* terminate() on thread t: Terminable.terminate(self); self.go()
\* (a call that would change nothing is left out)
DS_Terminate(t) ==
    /\ ~ds_term[t] \/ t \notin ds_go
    /\ ds_term' = [u \in DsThreads |-> ds_term[u] \/ u \in TermGroup(t)]
    /\ ds_started' = ds_started \cup {main_deferred_start(t)}
    /\ ds_go' = ds_go \cup {t}
    /\ UNCHANGED <<ds_timeout, ds_st, ds_late>>
    /\ UNCHANGED <<coreVars, rpcVars, colVars, meVars, chVars, tgVars, blVars, ctVars, slVars>>

\* Terminable.terminate() on E, the Terminable M and S share their
\* termination Event with: self._termination_event.set()
DS_TerminateSharer ==
    /\ \E t \in DsThreads : shared_terminable(t) = "E" /\ ~ds_term[t]
    /\ ds_term' = [u \in DsThreads |-> ds_term[u] \/ shared_terminable(u) = "E"]
    /\ UNCHANGED <<ds_timeout, ds_started, ds_st, ds_go, ds_late>>
    /\ UNCHANGED <<coreVars, rpcVars, colVars, meVars, chVars, tgVars, blVars, ctVars, slVars>>

\* run(): the wait returns; if self.should_run: LoggedThread.run(self)
DS_Wake(t) ==
    /\ ds_st[t] = "waiting"
    /\ WaitReturns(main_deferred_start(t) \in ds_started, ds_timeout[t])
    /\ ds_late' = IF main_deferred_start(t) \in ds_started THEN ds_late
                  ELSE ds_late \cup {t}
    /\ ds_st' = [ds_st EXCEPT ![t] = IF ds_term[t] THEN "ended" ELSE "running"]
    /\ UNCHANGED <<ds_timeout, ds_started, ds_term, ds_go>>
    /\ UNCHANGED <<coreVars, rpcVars, colVars, meVars, chVars, tgVars, blVars, ctVars, slVars>>

\* logged_run returns
DS_End(t) ==
    /\ ds_st[t] = "running"
    /\ ds_st' = [ds_st EXCEPT ![t] = "ended"]
    /\ UNCHANGED <<ds_timeout, ds_started, ds_term, ds_go, ds_late>>
    /\ UNCHANGED <<coreVars, rpcVars, colVars, meVars, chVars, tgVars, blVars, ctVars, slVars>>

DsNext ==
    \/ \E t \in DsThreads : DS_Start(t)
    \/ \E t \in DsThreads : DS_Go(t)
    \/ \E t \in DsThreads : DS_Terminate(t)
    \/ DS_TerminateSharer
    \/ \E t \in DsThreads : DS_Wake(t)
    \/ \E t \in DsThreads : DS_End(t)

\* deferred threads not started, constructed without a start timeout
DsIdle == DsInit /\ \A t \in DsThreads : ds_timeout[t] = None

\* ------------------------------------------- Monitor and MonitorDataEntity
\* the values a rule variable can take
VarVals == 0..1

\* Monitor.variables as constructed: no rule variable, no last_control
NoVariables == [v |-> None, last_control |-> EmptyDict]

\* no Entity yet; "at" is the number of records collected when
\* interrogate() returned, "stored" tells that store_variables() was called
NoEntity ==
    [live |-> FALSE, variables |-> NoVariables, controls |-> EmptyDict,
     statistics |-> <<>>, at |-> 0, stored |-> FALSE]

\* collect(): statistics.append(data); if len > hist_len: popleft()
AppendRecord(stats, n, hist_len) ==
    IF Len(stats) + 1 > hist_len THEN Tail(Append(stats, n)) ELSE Append(stats, n)

\* MonitorDataEntity.update_variable(monitor.variables): dict.update
update_variable(variables) == variables

MeInit ==
    /\ me_ready = FALSE
    /\ me_variables = NoVariables
    /\ me_statistics = <<>>
    /\ me_count = 0
    /\ me_entity = NoEntity

\* Monitor._set_ready()
ME_SetReady ==
    /\ ~me_ready
    /\ me_ready' = TRUE
    /\ UNCHANGED <<me_variables, me_statistics, me_count, me_entity>>
    /\ UNCHANGED <<coreVars, rpcVars, colVars, dsVars, chVars, tgVars, blVars, ctVars, slVars>>

\* Monitor.collect(), the record pushed under data_lock
ME_Collect ==
    /\ me_count < MaxCollects
    /\ me_count' = me_count + 1
    /\ me_statistics' = AppendRecord(me_statistics, me_count + 1, MaxHist)
    /\ me_entity' = [me_entity EXCEPT
                        !.statistics = IF me_entity.live
                                       THEN set_statistics(@, me_statistics')
                                       ELSE @]
    /\ UNCHANGED <<me_ready, me_variables>>
    /\ UNCHANGED <<coreVars, rpcVars, colVars, dsVars, chVars, tgVars, blVars, ctVars, slVars>>

\* Monitor.interrogate(): a new Entity with the Monitor's variables and
\* statistics; the Entity returned before is discarded
ME_Interrogate ==
    /\ me_ready
    /\ me_entity' = [live |-> TRUE,
                     variables |-> update_variable(me_variables),
                     controls |-> EmptyDict,
                     statistics |-> me_statistics,
                     at |-> me_count,
                     stored |-> FALSE]
    /\ UNCHANGED <<me_ready, me_variables, me_statistics, me_count>>
    /\ UNCHANGED <<coreVars, rpcVars, colVars, dsVars, chVars, tgVars, blVars, ctVars, slVars>>

\* MonitorDataEntity.set_var(key, val) / set_variable / update_vars
ME_SetVar ==
    /\ me_entity.live
    /\ \/ \E val \in VarVals :
             me_entity' = [me_entity EXCEPT !.variables.v = val]
       \/ \E d \in Dicts :
             me_entity' = [me_entity EXCEPT !.variables.last_control = d]
    /\ UNCHANGED <<me_ready, me_variables, me_statistics, me_count>>
    /\ UNCHANGED <<coreVars, rpcVars, colVars, dsVars, chVars, tgVars, blVars, ctVars, slVars>>

\* MonitorDataEntity.control(key, val); once store_variables() handed the
\* controls dict to the Monitor, last_control there is this very dict
ME_Control ==
    /\ me_entity.live
    /\ \E r \in Resources, val \in MemVals :
          /\ me_entity' = [me_entity EXCEPT !.controls[r] = val]
          /\ me_variables' =
                IF me_entity.stored
                THEN [me_variables EXCEPT !.last_control[r] = val]
                ELSE me_variables
    /\ UNCHANGED <<me_ready, me_statistics, me_count>>
    /\ UNCHANGED <<coreVars, rpcVars, colVars, dsVars, chVars, tgVars, blVars, ctVars, slVars>>

\* MonitorDataEntity.store_variables()
ME_Store ==
    /\ me_entity.live
    /\ me_variables' = store_variables(me_entity.variables, me_entity.controls)
    /\ me_entity' = [me_entity EXCEPT !.stored = TRUE]
    /\ UNCHANGED <<me_ready, me_statistics, me_count>>
    /\ UNCHANGED <<coreVars, rpcVars, colVars, dsVars, chVars, tgVars, blVars, ctVars, slVars>>

MeNext ==
    \/ ME_SetReady
    \/ ME_Collect
    \/ ME_Interrogate
    \/ ME_SetVar
    \/ ME_Control
    \/ ME_Store

\* the Monitor as constructed, never collecting nor interrogated
MeIdle == MeInit

\* ------------------------------------- GuestClient and SimpleTcpClient
\* the threads sharing a guest's GuestClient: a HostPolicy job ("P") and
\* the GuestMonitor's collector ("M")
ChCallers == {"P", "M"}

\* the calls each of them makes
ChKinds(c) == IF c = "P" THEN {"inquiry", "provisional", "final"} ELSE {"stats"}

\* HostPolicy.inquiry_timeout, with the default config
INQUIRY_TIMEOUT == 2

\* GuestClient.default_timeout
DEFAULT_TIMEOUT == 60

\* notify_guest: timeout = grace_period, or inquiry_timeout if it is None
NotifyTimeout(grace) == IF grace = None THEN INQUIRY_TIMEOUT ELSE grace

\* the timeout a call hands to send_receive_message
CallTimeout(kind, grace) ==
    IF kind \in {"provisional", "final"} THEN NotifyTimeout(grace)
    ELSE IF kind = "inquiry" THEN INQUIRY_TIMEOUT
    ELSE DEFAULT_TIMEOUT

\* socket.settimeout: a timeout of 0 puts the socket in non-blocking mode
Blocking(timeout) == timeout # 0

NoCall == [req |-> 0, kind |-> "none", grace |-> None, timeout |-> None, up |-> FALSE]

NoReply == [req |-> 0, reply |-> 0]

\* variant: send_recv leaves the connection open when it raises
CloseOnError_Keep(sock) == sock

\* send_recv: except Exception: self.close(), which leaves self.sock None
CloseOnError(sock) == 0

ChInit ==
    /\ ch_lock = "none"
    /\ ch_pc = [c \in ChCallers |-> "idle"]
    /\ ch_call = [c \in ChCallers |-> NoCall]
    /\ ch_sock = 0
    /\ ch_conns = 0
    /\ ch_reqs = 0
    /\ ch_inbox = {}
    /\ ch_replies = {}
    /\ ch_notify = 0
    /\ ch_up = TRUE
    /\ ch_result = [c \in ChCallers |-> NoReply]

\* send_receive_message returns or raises: the lock is released
ChFinish(c, reply) ==
    /\ ch_result' = [ch_result EXCEPT ![c] = [req |-> ch_call[c].req, reply |-> reply]]
    /\ ch_lock' = "none"
    /\ ch_pc' = [ch_pc EXCEPT ![c] = "idle"]

\* send_receive_message: with self.lock: self.set_timeout(timeout)
CH_Call(c) ==
    /\ ch_pc[c] = "idle"
    /\ ch_lock = "none"
    /\ ch_reqs < MaxRequests
    /\ \E kind \in ChKinds(c) :
          \E g \in (IF kind = "provisional" THEN 0..MaxChGrace ELSE {None}) :
             ch_call' = [ch_call EXCEPT ![c] =
                 [req |-> ch_reqs + 1, kind |-> kind, grace |-> g,
                  timeout |-> CallTimeout(kind, g), up |-> ch_up]]
    /\ ch_reqs' = ch_reqs + 1
    /\ ch_lock' = c
    /\ ch_pc' = [ch_pc EXCEPT ![c] = "locked"]
    /\ UNCHANGED <<ch_sock, ch_conns, ch_inbox, ch_replies, ch_notify, ch_up, ch_result>>
    /\ UNCHANGED <<coreVars, rpcVars, colVars, dsVars, meVars, tgVars, blVars, ctVars, slVars>>

\* send_recv: self.connect(); socket.create_connection(..., self.timeout)
\* raises at once on a non-blocking socket
CH_Connect(c) ==
    /\ ch_pc[c] = "locked"
    /\ IF ch_sock # 0
       THEN /\ ch_pc' = [ch_pc EXCEPT ![c] = "connected"]
            /\ UNCHANGED <<ch_sock, ch_conns, ch_lock, ch_result>>
       ELSE IF Blocking(ch_call[c].timeout) /\ ch_up
       THEN /\ ch_sock' = ch_conns + 1
            /\ ch_conns' = ch_conns + 1
            /\ ch_pc' = [ch_pc EXCEPT ![c] = "connected"]
            /\ UNCHANGED <<ch_lock, ch_result>>
       ELSE /\ ChFinish(c, 0)
            /\ UNCHANGED <<ch_sock, ch_conns>>
    /\ UNCHANGED <<ch_call, ch_reqs, ch_inbox, ch_replies, ch_notify, ch_up>>
    /\ UNCHANGED <<coreVars, rpcVars, colVars, dsVars, meVars, tgVars, blVars, ctVars, slVars>>

\* send_recv: self.sock.sendall(self.encode_message(msg))
CH_Send(c) ==
    /\ ch_pc[c] = "connected"
    /\ ch_inbox' = ch_inbox \cup
          {[conn |-> ch_sock, req |-> ch_call[c].req, kind |-> ch_call[c].kind]}
    /\ ch_pc' = [ch_pc EXCEPT ![c] = "sent"]
    /\ UNCHANGED <<ch_lock, ch_call, ch_sock, ch_conns, ch_reqs, ch_replies,
                   ch_notify, ch_up, ch_result>>
    /\ UNCHANGED <<coreVars, rpcVars, colVars, dsVars, meVars, tgVars, blVars, ctVars, slVars>>

\* _PickleRequestHandler.handle of the connection's handler thread: the
\* message is processed and the reply written to the connection
CH_Serve ==
    /\ ch_up
    /\ \E m \in ch_inbox :
          /\ ch_inbox' = ch_inbox \ {m}
          /\ ch_replies' = ch_replies \cup {[conn |-> m.conn, req |-> m.req]}
          /\ ch_notify' = IF m.kind \in {"provisional", "final"} THEN m.req
                          ELSE ch_notify
    /\ UNCHANGED <<ch_lock, ch_pc, ch_call, ch_sock, ch_conns, ch_reqs, ch_up, ch_result>>
    /\ UNCHANGED <<coreVars, rpcVars, colVars, dsVars, meVars, tgVars, blVars, ctVars, slVars>>

\* send_recv: self.sock.recv(recv_len) gives a reply, which is returned
CH_Recv(c) ==
    /\ ch_pc[c] = "sent"
    /\ \E r \in ch_replies :
          /\ r.conn = ch_sock
          /\ ch_replies' = ch_replies \ {r}
          /\ ChFinish(c, r.req)
    /\ UNCHANGED <<ch_call, ch_sock, ch_conns, ch_reqs, ch_inbox, ch_notify, ch_up>>
    /\ UNCHANGED <<coreVars, rpcVars, colVars, dsVars, meVars, tgVars, blVars, ctVars, slVars>>

\* send_recv: recv raises, at once on a non-blocking socket and after the
\* timeout when the server does not answer; the connection is closed
CH_Timeout(c) ==
    /\ ch_pc[c] = "sent"
    /\ ~\E r \in ch_replies : r.conn = ch_sock
    /\ ~Blocking(ch_call[c].timeout) \/ ~ch_up
    /\ ch_sock' = CloseOnError(ch_sock)
    /\ ChFinish(c, 0)
    /\ UNCHANGED <<ch_call, ch_conns, ch_reqs, ch_inbox, ch_replies, ch_notify, ch_up>>
    /\ UNCHANGED <<coreVars, rpcVars, colVars, dsVars, meVars, tgVars, blVars, ctVars, slVars>>

\* the guest's server stops answering in time, or answers again
CH_Env ==
    /\ ch_up' = ~ch_up
    /\ ch_call' = [c \in ChCallers |->
          IF ch_pc[c] # "idle" THEN [ch_call[c] EXCEPT !.up = FALSE] ELSE ch_call[c]]
    /\ UNCHANGED <<ch_lock, ch_pc, ch_sock, ch_conns, ch_reqs, ch_inbox, ch_replies,
                   ch_notify, ch_result>>
    /\ UNCHANGED <<coreVars, rpcVars, colVars, dsVars, meVars, tgVars, blVars, ctVars, slVars>>

ChNext ==
    \/ \E c \in ChCallers : CH_Call(c)
    \/ \E c \in ChCallers : CH_Connect(c)
    \/ \E c \in ChCallers : CH_Send(c)
    \/ CH_Serve
    \/ \E c \in ChCallers : CH_Recv(c)
    \/ \E c \in ChCallers : CH_Timeout(c)
    \/ CH_Env

\* the GuestClient as constructed, never called
ChIdle == ChInit

\* ------------------------- guest server handler threads, request_target
\* an entry of data['notify'] that was never written
NoField == [v |-> None, src |-> 0]

NoNotification == [present |-> FALSE, alloc |-> NoField, grace |-> NoField,
                   update_time |-> NoField]

NoOut == [called |-> FALSE, notified |-> None, update_time |-> None,
          cur_time |-> None, grace_period |-> None]

\* variant: a remainder under 0.01 s is handed on as it is
RequestTargetGrace_NoFloor(grace, update_time, cur_time) ==
    IF grace = None THEN None
    ELSE grace - (cur_time - (IF update_time = None THEN cur_time ELSE update_time))

\* request_target: the grace-period put into the target, in hundredths
RequestTargetGrace(grace, update_time, cur_time) ==
    IF grace = None THEN None
    ELSE LET ut == IF update_time = None THEN cur_time ELSE update_time
             g == grace - (cur_time - ut)
         IN IF g < 1 THEN None ELSE g

TgInit ==
    /\ tg_clock = 0
    /\ tg_notify = NoNotification
    /\ tg_nh = "idle"
    /\ tg_sent = 0
    /\ tg_event = FALSE
    /\ tg_ta = "idle"
    /\ tg_reply = NoNotification
    /\ tg_out = NoOut

\* time passes on the guest
TG_Tick ==
    /\ tg_clock < MaxTgClock
    /\ tg_clock' = tg_clock + 1
    /\ UNCHANGED <<tg_notify, tg_nh, tg_sent, tg_event, tg_ta, tg_reply, tg_out>>
    /\ UNCHANGED <<coreVars, rpcVars, colVars, dsVars, meVars, chVars, blVars, ctVars, slVars>>

\* MessageNotify.process in the handler thread of the host's connection:
\* notify_data.update(self.content)
TG_NotifyUpdate ==
    /\ tg_nh = "idle"
    /\ tg_sent < MaxNotifies
    /\ \E a \in MemVals, g \in (0..MaxTgGrace) \cup {None} :
          tg_notify' = [tg_notify EXCEPT !.present = TRUE,
                           !.alloc = [v |-> a, src |-> tg_sent + 1],
                           !.grace = [v |-> g, src |-> tg_sent + 1]]
    /\ tg_sent' = tg_sent + 1
    /\ tg_nh' = "updated"
    /\ UNCHANGED <<tg_clock, tg_event, tg_ta, tg_reply, tg_out>>
    /\ UNCHANGED <<coreVars, rpcVars, colVars, dsVars, meVars, chVars, blVars, ctVars, slVars>>

\* MessageNotify.process: notify_data['update-time'] = time.time()
TG_NotifyTime ==
    /\ tg_nh = "updated"
    /\ tg_notify' = [tg_notify EXCEPT !.update_time = [v |-> tg_clock, src |-> tg_sent]]
    /\ tg_nh' = "timed"
    /\ UNCHANGED <<tg_clock, tg_sent, tg_event, tg_ta, tg_reply, tg_out>>
    /\ UNCHANGED <<coreVars, rpcVars, colVars, dsVars, meVars, chVars, blVars, ctVars, slVars>>

\* MessageNotify.process: policy.notify(notify_data) sets the event
TG_NotifyEvent ==
    /\ tg_nh = "timed"
    /\ tg_event' = TRUE
    /\ tg_nh' = "idle"
    /\ UNCHANGED <<tg_clock, tg_notify, tg_sent, tg_ta, tg_reply, tg_out>>
    /\ UNCHANGED <<coreVars, rpcVars, colVars, dsVars, meVars, chVars, blVars, ctVars, slVars>>

\* request_target sends MessageTargetAllocation; its handler thread
\* enters policy.wait_for_notify(timeout)
TG_Request ==
    /\ tg_ta = "idle"
    /\ tg_ta' = "waiting"
    /\ UNCHANGED <<tg_clock, tg_notify, tg_nh, tg_sent, tg_event, tg_reply, tg_out>>
    /\ UNCHANGED <<coreVars, rpcVars, colVars, dsVars, meVars, chVars, blVars, ctVars, slVars>>

\* wait_for_notify returns, the event set or the timeout over, and clears
\* the event
TG_WaitReturn ==
    /\ tg_ta = "waiting"
    /\ tg_event' = FALSE
    /\ tg_ta' = "woke"
    /\ UNCHANGED <<tg_clock, tg_notify, tg_nh, tg_sent, tg_reply, tg_out>>
    /\ UNCHANGED <<coreVars, rpcVars, colVars, dsVars, meVars, chVars, blVars, ctVars, slVars>>

\* MessageTargetAllocation.process returns data.get("notify", {}), the
\* dict itself, which the handler pickles into the reply
TG_Reply ==
    /\ tg_ta = "woke"
    /\ tg_reply' = tg_notify
    /\ tg_ta' = "replied"
    /\ UNCHANGED <<tg_clock, tg_notify, tg_nh, tg_sent, tg_event, tg_out>>
    /\ UNCHANGED <<coreVars, rpcVars, colVars, dsVars, meVars, chVars, blVars, ctVars, slVars>>

\* request_target, from the reply on: the grace-period left at cur_time
TG_Compute ==
    /\ tg_ta = "replied"
    /\ tg_out' = [called |-> TRUE,
                  notified |-> tg_reply.grace.v,
                  update_time |-> tg_reply.update_time.v,
                  cur_time |-> tg_clock,
                  grace_period |-> RequestTargetGrace(tg_reply.grace.v,
                                                      tg_reply.update_time.v, tg_clock)]
    /\ tg_ta' = "idle"
    /\ UNCHANGED <<tg_clock, tg_notify, tg_nh, tg_sent, tg_event, tg_reply>>
    /\ UNCHANGED <<coreVars, rpcVars, colVars, dsVars, meVars, chVars, blVars, ctVars, slVars>>

TgNext ==
    \/ TG_Tick
    \/ TG_NotifyUpdate
    \/ TG_NotifyTime
    \/ TG_NotifyEvent
    \/ TG_Request
    \/ TG_WaitReturn
    \/ TG_Reply
    \/ TG_Compute

\* the guest server as constructed, no connection yet
TgIdle == TgInit

\* ------------------------------------------------ Balloon.apply_control
\* the guests argument of apply_control, in the order of the list
bl_guests == <<"G1", "G2", "G3">>

BlGuests == {bl_guests[i] : i \in DOMAIN bl_guests}

BlPos(g) == CHOOSE i \in DOMAIN bl_guests : bl_guests[i] = g

\* variant: the key is current - target
guest_sort_key_Reversed(tgt, curmem) ==
    IF tgt = None \/ curmem = None THEN 0 ELSE curmem - tgt

\* Balloon._guest_sort_key: target - current, 0 when that raises
guest_sort_key(tgt, curmem) ==
    IF tgt = None \/ curmem = None THEN 0 ELSE tgt - curmem

\* sorted(guests, key=self._guest_sort_key): the place of a guest, equal
\* keys keeping the order of the list
SortedPos(g, tgt, cur) ==
    1 + Cardinality({h \in BlGuests :
            \/ guest_sort_key(tgt[h], cur[h]) < guest_sort_key(tgt[g], cur[g])
            \/ /\ guest_sort_key(tgt[h], cur[h]) = guest_sort_key(tgt[g], cur[g])
               /\ BlPos(h) < BlPos(g)})

BlInit ==
    /\ bl_target \in [BlGuests -> MemVals \cup {None}]
    /\ bl_control = bl_target
    /\ bl_curmem \in [BlGuests -> MemVals \cup {None}]
    /\ bl_dom \in [BlGuests -> MemVals]
    /\ bl_order = <<>>
    /\ bl_set = [g \in BlGuests |-> None]

\* apply_control: one turn of the loop, apply_guest_control(guest)
BL_ApplyGuest ==
    /\ Len(bl_order) < Len(bl_guests)
    /\ \E g \in BlGuests :
          /\ SortedPos(g, bl_target, bl_curmem) = Len(bl_order) + 1
          /\ bl_order' = Append(bl_order, g)
          /\ bl_set' = [bl_set EXCEPT ![g] = BalloonSetMemory(g, bl_target[g], bl_dom[g])]
          /\ bl_control' = [bl_control EXCEPT ![g] = BalloonControl(g, bl_target[g])]
    /\ UNCHANGED <<bl_target, bl_curmem, bl_dom>>
    /\ UNCHANGED <<coreVars, rpcVars, colVars, dsVars, meVars, chVars, tgVars, ctVars, slVars>>

BlNext == BL_ApplyGuest

\* a Balloon whose apply_control is not called
BlIdle ==
    /\ bl_target = [g \in BlGuests |-> None]
    /\ bl_control = [g \in BlGuests |-> None]
    /\ bl_curmem = [g \in BlGuests |-> None]
    /\ bl_dom = [g \in BlGuests |-> 5]
    /\ bl_order = <<>>
    /\ bl_set = [g \in BlGuests |-> None]

\* --------------------------------- do_controls: the loop over controllers
\* HostPolicy.controllers: one controller per configured resource
controllers == <<"memory", "cpu", "bandwidth">>

\* the values entity.controls takes
CtAllocs == 1..2

\* Thread.is_alive() of the HostPolicy thread
HostPolicyAlive == ct_pc \notin {"ended", "dead"}

\* variant: a controller that raises is skipped and the loop goes on
ControlStep_Isolated(idx, raises) ==
    [pc |-> "control", idx |-> idx + 1, applied |-> ~raises]

\* for c in self.controllers: c.apply_control(host, guest_list), with no
\* try around the call: an exception leaves do_controls and logged_run and
\* is caught in LoggedThread.run, which logs it and returns
ControlStep(idx, raises) ==
    IF raises THEN [pc |-> "dead", idx |-> idx, applied |-> FALSE]
    ELSE [pc |-> "control", idx |-> idx + 1, applied |-> TRUE]

CtInit ==
    /\ ct_pc = "loop"
    /\ ct_idx = 0
    /\ ct_applied = <<>>
    /\ ct_raised = 0
    /\ ct_controls = 0
    /\ ct_last = 0
    /\ ct_stored = FALSE
    /\ ct_final = FALSE
    /\ ct_cycles = 0
    /\ ct_shared \in BOOLEAN
    /\ ct_term = [o \in {"HP", "D"} |-> FALSE]
    /\ ct_dm = "loop"
    /\ ct_warned = FALSE

\* Terminable.terminate() on object o: its Event is the other's too when
\* the daemon was constructed with a shared_terminable
CT_Terminate(o) ==
    /\ ~ct_term[o]
    /\ ct_term' = [p \in {"HP", "D"} |-> ct_term[p] \/ p = o \/ ct_shared]
    /\ UNCHANGED <<ct_pc, ct_idx, ct_applied, ct_raised, ct_controls, ct_last,
                   ct_stored, ct_final, ct_cycles, ct_shared, ct_dm, ct_warned>>
    /\ UNCHANGED <<coreVars, rpcVars, colVars, dsVars, meVars, chVars, tgVars, blVars, slVars>>

\* logged_run: while self.should_run is over, the thread ends
CT_Exit ==
    /\ ct_pc = "loop"
    /\ ct_term["HP"]
    /\ ct_pc' = "ended"
    /\ UNCHANGED <<ct_idx, ct_applied, ct_raised, ct_controls, ct_last, ct_stored,
                   ct_final, ct_cycles, ct_shared, ct_term, ct_dm, ct_warned>>
    /\ UNCHANGED <<coreVars, rpcVars, colVars, dsVars, meVars, chVars, tgVars, blVars, slVars>>

\* do_controls up to the loop over the controllers: it returns early, or
\* the policy has set the controls of the cycle and the grace sleep is over
CT_StartCycle ==
    /\ ct_pc = "loop"
    /\ ~ct_term["HP"]
    /\ ct_cycles < MaxCtCycles
    /\ ct_cycles' = ct_cycles + 1
    /\ ct_applied' = <<>>
    /\ ct_stored' = FALSE
    /\ ct_final' = FALSE
    /\ \E reached \in BOOLEAN, c \in CtAllocs :
          IF reached
          THEN ct_pc' = "control" /\ ct_idx' = 1 /\ ct_controls' = c
          ELSE ct_pc' = "sleep" /\ ct_idx' = 0 /\ UNCHANGED ct_controls
    /\ UNCHANGED <<ct_raised, ct_last, ct_shared, ct_term, ct_dm, ct_warned>>
    /\ UNCHANGED <<coreVars, rpcVars, colVars, dsVars, meVars, chVars, tgVars, blVars, slVars>>

\* one turn of the loop: c.apply_control(host, guest_list) returns or raises
CT_Apply ==
    /\ ct_pc = "control"
    /\ ct_idx <= Len(controllers)
    /\ \E raises \in BOOLEAN :
          LET step == ControlStep(ct_idx, raises)
          IN /\ ct_pc' = step.pc
             /\ ct_idx' = step.idx
             /\ ct_applied' = IF step.applied THEN Append(ct_applied, controllers[ct_idx])
                              ELSE ct_applied
             /\ ct_raised' = IF raises THEN ct_idx ELSE ct_raised
    /\ UNCHANGED <<ct_controls, ct_last, ct_stored, ct_final, ct_cycles, ct_shared,
                   ct_term, ct_dm, ct_warned>>
    /\ UNCHANGED <<coreVars, rpcVars, colVars, dsVars, meVars, chVars, tgVars, blVars, slVars>>

\* after the loop: the log records and entity.store_variables(), then the
\* should_run check before the final Notify
CT_Store ==
    /\ ct_pc = "control"
    /\ ct_idx > Len(controllers)
    /\ ct_last' = ct_controls
    /\ ct_stored' = TRUE
    /\ ct_pc' = IF ct_term["HP"] THEN "sleep" ELSE "final"
    /\ UNCHANGED <<ct_idx, ct_applied, ct_raised, ct_controls, ct_final, ct_cycles,
                   ct_shared, ct_term, ct_dm, ct_warned>>
    /\ UNCHANGED <<coreVars, rpcVars, colVars, dsVars, meVars, chVars, tgVars, blVars, slVars>>

\* parallel_for_each_guest(self.notify_guest, guest_list, grace_period=None)
CT_FinalNotify ==
    /\ ct_pc = "final"
    /\ ct_final' = TRUE
    /\ ct_pc' = "sleep"
    /\ UNCHANGED <<ct_idx, ct_applied, ct_raised, ct_controls, ct_last, ct_stored,
                   ct_cycles, ct_shared, ct_term, ct_dm, ct_warned>>
    /\ UNCHANGED <<coreVars, rpcVars, colVars, dsVars, meVars, chVars, tgVars, blVars, slVars>>

\* logged_run: the terminable_sleep after do_controls returns
CT_IntervalSleep ==
    /\ ct_pc = "sleep"
    /\ ct_pc' = "loop"
    /\ UNCHANGED <<ct_idx, ct_applied, ct_raised, ct_controls, ct_last, ct_stored,
                   ct_final, ct_cycles, ct_shared, ct_term, ct_dm, ct_warned>>
    /\ UNCHANGED <<coreVars, rpcVars, colVars, dsVars, meVars, chVars, tgVars, blVars, slVars>>

\* run_mom: one turn of while self.should_run: terminable_sleep(interval);
\* if not threads_ok(self.threads): (warning if self.should_run) break
CT_DaemonCheck ==
    /\ ct_dm = "loop"
    /\ ct_term["D"] \/ ~HostPolicyAlive
    /\ ct_dm' = "terminate"
    /\ ct_warned' = (~HostPolicyAlive /\ ~ct_term["D"])
    /\ UNCHANGED <<ct_pc, ct_idx, ct_applied, ct_raised, ct_controls, ct_last,
                   ct_stored, ct_final, ct_cycles, ct_shared, ct_term>>
    /\ UNCHANGED <<coreVars, rpcVars, colVars, dsVars, meVars, chVars, tgVars, blVars, slVars>>

\* run_mom: self.terminate()
CT_DaemonTerminate ==
    /\ ct_dm = "terminate"
    /\ ct_term' = [p \in {"HP", "D"} |-> ct_term[p] \/ p = "D" \/ ct_shared]
    /\ ct_dm' = "join"
    /\ UNCHANGED <<ct_pc, ct_idx, ct_applied, ct_raised, ct_controls, ct_last,
                   ct_stored, ct_final, ct_cycles, ct_shared, ct_warned>>
    /\ UNCHANGED <<coreVars, rpcVars, colVars, dsVars, meVars, chVars, tgVars, blVars, slVars>>

\* run_mom: for t in self.threads: if t.is_alive(): t.join()
CT_DaemonJoin ==
    /\ ct_dm = "join"
    /\ ~HostPolicyAlive
    /\ ct_dm' = "done"
    /\ UNCHANGED <<ct_pc, ct_idx, ct_applied, ct_raised, ct_controls, ct_last,
                   ct_stored, ct_final, ct_cycles, ct_shared, ct_term, ct_warned>>
    /\ UNCHANGED <<coreVars, rpcVars, colVars, dsVars, meVars, chVars, tgVars, blVars, slVars>>

CtNext ==
    \/ \E o \in {"HP", "D"} : CT_Terminate(o)
    \/ CT_Exit
    \/ CT_StartCycle
    \/ CT_Apply
    \/ CT_Store
    \/ CT_FinalNotify
    \/ CT_IntervalSleep
    \/ CT_DaemonCheck
    \/ CT_DaemonTerminate
    \/ CT_DaemonJoin

\* a HostPolicy whose controllers are not followed
CtIdle == CtInit /\ ct_shared = FALSE

\* ------------------------------------------- Terminable.terminable_sleep
\* the threads calling terminable_sleep; they share one termination Event
SlThreads == {"T1", "T2"}

\* the Terminables: the two threads and X were constructed sharing the
\* Event "E" (share_termination); Y has an Event of its own
SlEvent(o) == IF o = "Y" THEN "Y" ELSE "E"

SlInit ==
    /\ sl_set = [e \in {"E", "Y"} |-> FALSE]
    /\ sl_pc = [t \in SlThreads |-> "idle"]
    /\ sl_timeout = [t \in SlThreads |-> 0]
    /\ sl_waited = [t \in SlThreads |-> 0]
    /\ sl_notified = [t \in SlThreads |-> FALSE]
    /\ sl_early = [t \in SlThreads |-> FALSE]
    /\ sl_result = [t \in SlThreads |-> "none"]

\* terminable_sleep(timeout) up to the point where it blocks or returns:
\* above the minimal sleep it waits on the Event, which returns at once
\* when the Event is set; otherwise it returns should_run
SL_Call(t) ==
    /\ sl_pc[t] = "idle"
    /\ \E timeout \in (0 - 1)..MaxSleep :
          /\ sl_timeout' = [sl_timeout EXCEPT ![t] = timeout]
          /\ IF PaceSleepBlocks(timeout) /\ ~sl_set["E"]
             THEN /\ sl_pc' = [sl_pc EXCEPT ![t] = "blocked"]
                  /\ UNCHANGED sl_result
             ELSE /\ sl_pc' = [sl_pc EXCEPT ![t] = "returned"]
                  /\ sl_result' = [sl_result EXCEPT ![t] =
                                      IF sl_set["E"] THEN "False" ELSE "True"]
    /\ UNCHANGED <<sl_set, sl_waited, sl_notified, sl_early>>
    /\ UNCHANGED <<coreVars, rpcVars, colVars, dsVars, meVars, chVars, tgVars, blVars, ctVars>>

\* terminate() on Terminable o: self._termination_event.set(), which
\* notifies every thread waiting on that Event; a thread whose timeout has
\* just run out is reached by it or not
SL_Terminate(o) ==
    /\ ~sl_set[SlEvent(o)]
    /\ sl_set' = [sl_set EXCEPT ![SlEvent(o)] = TRUE]
    /\ \E late \in SUBSET {t \in SlThreads :
                              sl_pc[t] = "blocked" /\ sl_waited[t] = sl_timeout[t]} :
          sl_notified' = [t \in SlThreads |->
                             \/ sl_notified[t]
                             \/ /\ SlEvent(o) = "E"
                                /\ sl_pc[t] = "blocked"
                                /\ t \notin late]
    /\ sl_early' = [t \in SlThreads |->
                        \/ sl_early[t]
                        \/ /\ SlEvent(o) = "E"
                           /\ sl_pc[t] = "blocked"
                           /\ sl_waited[t] < sl_timeout[t]]
    /\ UNCHANGED <<sl_pc, sl_timeout, sl_waited, sl_result>>
    /\ UNCHANGED <<coreVars, rpcVars, colVars, dsVars, meVars, chVars, tgVars, blVars, ctVars>>

\* a hundredth of a second passes for the threads that are blocked
SL_Tick ==
    /\ \E t \in SlThreads : sl_pc[t] = "blocked" /\ sl_waited[t] < sl_timeout[t]
    /\ \A t \in SlThreads : sl_pc[t] = "blocked" => sl_waited[t] < sl_timeout[t]
    /\ sl_waited' = [t \in SlThreads |->
                        IF sl_pc[t] = "blocked" THEN sl_waited[t] + 1 ELSE sl_waited[t]]
    /\ UNCHANGED <<sl_set, sl_pc, sl_timeout, sl_notified, sl_early, sl_result>>
    /\ UNCHANGED <<coreVars, rpcVars, colVars, dsVars, meVars, chVars, tgVars, blVars, ctVars>>

\* self._termination_event.wait(timeout) returns True, the thread was
\* notified: terminable_sleep returns False
SL_Return(t) ==
    /\ sl_pc[t] = "blocked"
    /\ sl_notified[t]
    /\ sl_pc' = [sl_pc EXCEPT ![t] = "returned"]
    /\ sl_result' = [sl_result EXCEPT ![t] = "False"]
    /\ UNCHANGED <<sl_set, sl_timeout, sl_waited, sl_notified, sl_early>>
    /\ UNCHANGED <<coreVars, rpcVars, colVars, dsVars, meVars, chVars, tgVars, blVars, ctVars>>

\* self._termination_event.wait(timeout) returns False, the timeout ran
\* out: terminable_sleep returns True
SL_Timeout(t) ==
    /\ sl_pc[t] = "blocked"
    /\ ~sl_notified[t]
    /\ sl_waited[t] = sl_timeout[t]
    /\ sl_pc' = [sl_pc EXCEPT ![t] = "returned"]
    /\ sl_result' = [sl_result EXCEPT ![t] = "True"]
    /\ UNCHANGED <<sl_set, sl_timeout, sl_waited, sl_notified, sl_early>>
    /\ UNCHANGED <<coreVars, rpcVars, colVars, dsVars, meVars, chVars, tgVars, blVars, ctVars>>

SlNext ==
    \/ \E t \in SlThreads : SL_Call(t)
    \/ \E o \in SlThreads \cup {"X", "Y"} : SL_Terminate(o)
    \/ SL_Tick
    \/ \E t \in SlThreads : SL_Return(t)
    \/ \E t \in SlThreads : SL_Timeout(t)

\* no thread in terminable_sleep
SlIdle == SlInit

\* the parts modelled on their own as the daemons' specifications see them
AuxIdle == RpcInit /\ ColIdle /\ DsIdle /\ MeIdle /\ ChIdle /\ TgIdle /\ BlIdle /\ CtIdle /\ SlIdle

\* ---------------------------------------------------------- specifications
Init == HostInit /\ DrcIdle /\ GuestInit /\ DaemonIdle /\ PaceIdle /\ AuxIdle

Next == HostNext

\* the HostPolicy control cycle
Spec == Init /\ [][Next]_vars

\* the guest-side DynamicResourceControl thread, the host left as constructed
InitDRC == HostIdle /\ DrcInit /\ GuestInit /\ DaemonIdle /\ PaceIdle /\ AuxIdle

SpecDRC == InitDRC /\ [][DrcNext]_vars

\* the guest server and its policy, processing the messages it receives
InitGuest == HostIdle /\ DrcIdle /\ GuestInit /\ DaemonIdle /\ PaceIdle /\ AuxIdle

SpecGuest == InitGuest /\ [][GuestNext]_vars

\* the host daemon: run_mom, the GuestManager and its GuestMonitors
InitDaemon == HostIdle /\ DrcIdle /\ GuestInit /\ DaemonInit /\ PaceIdle /\ AuxIdle

SpecDaemon == InitDaemon /\ [][DaemonNext]_vars

\* the pacing of HostPolicy.logged_run, in hundredths of a second
InitPace == HostIdle /\ DrcIdle /\ GuestInit /\ DaemonIdle /\ PaceInit /\ AuxIdle

SpecPace == InitPace /\ [][PaceNext]_vars

\* the daemons as the parts modelled on their own see them: constructed
CoreIdle == HostIdle /\ DrcIdle /\ GuestInit /\ DaemonIdle /\ PaceIdle

\* GuestClient.send_receive_message against GuestServer.process_message
InitRpc == CoreIdle /\ RpcInit /\ ColIdle /\ DsIdle /\ MeIdle /\ ChIdle /\ TgIdle /\ BlIdle /\ CtIdle /\ SlIdle

SpecRpc == InitRpc /\ [][RpcNext]_vars

\* Monitor.collect in the monitor's thread, interrogate() in the policy's
InitCollect == CoreIdle /\ RpcInit /\ ColInit /\ DsIdle /\ MeIdle /\ ChIdle /\ TgIdle /\ BlIdle /\ CtIdle /\ SlIdle

SpecCollect == InitCollect /\ [][ColNext]_vars

\* DeferredStartThread objects, started, released and terminated from outside
InitDefer == CoreIdle /\ RpcInit /\ ColIdle /\ DsInit /\ MeIdle /\ ChIdle /\ TgIdle /\ BlIdle /\ CtIdle /\ SlIdle

SpecDefer == InitDefer /\ [][DsNext]_vars

\* one Monitor, collecting, and the Entity handed out by interrogate()
InitEntity == CoreIdle /\ RpcInit /\ ColIdle /\ DsIdle /\ MeInit /\ ChIdle /\ TgIdle /\ BlIdle /\ CtIdle /\ SlIdle

SpecEntity == InitEntity /\ [][MeNext]_vars

\* one GuestClient shared by a HostPolicy job and a collector
InitChannel == CoreIdle /\ RpcInit /\ ColIdle /\ DsIdle /\ MeIdle /\ ChInit /\ TgIdle /\ BlIdle /\ CtIdle /\ SlIdle

SpecChannel == InitChannel /\ [][ChNext]_vars

\* a Notify and a TargetAllocation request in two handler threads
InitTarget == CoreIdle /\ RpcInit /\ ColIdle /\ DsIdle /\ MeIdle /\ ChIdle /\ TgInit /\ BlIdle /\ CtIdle /\ SlIdle

SpecTarget == InitTarget /\ [][TgNext]_vars

\* Balloon.apply_control over a list of guest entities
InitBalloon ==
    CoreIdle /\ RpcInit /\ ColIdle /\ DsIdle /\ MeIdle /\ ChIdle /\ TgIdle /\ BlInit
    /\ CtIdle /\ SlIdle

SpecBalloon == InitBalloon /\ [][BlNext]_vars

\* the loop over the controllers in do_controls and run_mom's check
InitControl ==
    CoreIdle /\ RpcInit /\ ColIdle /\ DsIdle /\ MeIdle /\ ChIdle /\ TgIdle /\ BlIdle
    /\ CtInit /\ SlIdle

SpecControl == InitControl /\ [][CtNext]_vars

\* threads in terminable_sleep and terminate() on the Terminables
InitSleep ==
    CoreIdle /\ RpcInit /\ ColIdle /\ DsIdle /\ MeIdle /\ ChIdle /\ TgIdle /\ BlIdle
    /\ CtIdle /\ SlInit

SpecSleep == InitSleep /\ [][SlNext]_vars

\* ==================================================================
\* Properties of the HostPolicy cycle (checked under Spec)
\* ==================================================================

\* the control a guest's entity holds for a size asked in its inquiry, once
\* the controller of the resource has been applied
Clamped(g, v) == IF v # None /\ v > max_mem(g) THEN max_mem(g) ELSE v

\* C1: the stages of one do_controls cycle are strictly ordered: inquiry
\* jobs run only before apply_policy, which starts when all of them have
\* returned; notify jobs run only after apply_policy returned; controllers
\* are applied only after every provisional notify job returned and the
\* grace sleep ended; final notify jobs run only after every controller.
C1_StageOrder ==
    /\ \A g \in Guests : task[g] = "inquire" => hp_pc = "inquire" /\ policy_state = "none"
    /\ hp_pc = "policy" => \A g \in Guests : task[g] = "done"
    /\ \A g \in Guests :
          (task[g] = "notify" \/ prov_notify[g].sent) => policy_state = "done"
    /\ \A g \in Guests :
          task[g] = "notify" => hp_pc = "notify" /\ ~slept /\ ctrl_idx = 0
    /\ hp_pc = "grace_sleep" => \A g \in Guests : task[g] = "done" /\ prov_notify[g].sent
    /\ ctrl_idx >= 1 =>
          /\ slept
          /\ \A g \in Guests : prov_notify[g].sent /\ task[g] \in {"done", "final"}
    /\ \A g \in Guests :
          (task[g] = "final" \/ final_notify[g].sent) =>
              ctrl_idx > Len(resources) /\ hp_pc \in {"final_notify", "cycle_end", "interval_sleep", "loop", "ended"}

\* C1 witness: a cycle went through every stage up to the final notify
C1_Witness ==
    /\ hp_pc = "cycle_end"
    /\ prev_outcome = "completed"
    /\ \A g \in Guests : final_notify[g].sent /\ prov_notify[g].sent

C2_Inv ==
    /\ \A a \in Guests :
          ~task_res[a].isNone =>
             /\ hp_pc \notin {"inquire", "loop"} => ent_vars[a].inquiry = task_res[a]
             /\ policy_state = "done" =>
                   \A r \in Resources :
                      ent_controls[a][r] =
                         IF ctrl_idx > ControllerPos(r) THEN Clamped(a, task_res[a].d[r])
                         ELSE task_res[a].d[r]
             /\ prov_notify[a].sent => prov_notify[a].alloc = task_res[a].d
             /\ set_memory[a] # None => set_memory[a] = Clamped(a, task_res[a].d["memory"])
             /\ final_notify[a].sent =>
                   \A r \in Resources :
                      final_notify[a].alloc[r] = Clamped(a, task_res[a].d[r])
    /\ hp_pc = "ended" => ~should_run

C2_Step ==
    /\ (hp_pc = "inquire" /\ hp_pc' # "inquire" /\ should_run) => hp_pc' = "policy"
    /\ (hp_pc = "policy" /\ policy_state' = "done" /\ should_run) => hp_pc' = "notify_start"
    /\ (hp_pc = "final_notify" /\ hp_pc' # "final_notify") => prev_outcome' = "completed"

\* C2: a guest whose inquiry failed in a cycle does not disturb the others:
\* for every guest that answered, the stored inquiry, the computed control,
\* the provisional Notify, the controller application and the final Notify
\* depend on its own answer only; the failure neither aborts the cycle nor
\* ends the HostPolicy thread.
C2_GuestIsolation == []C2_Inv /\ [][C2_Step]_vars

\* C2 witness: a completed cycle in which B's inquiry failed and A's answer
\* went through to A's final Notify
C2_Witness ==
    /\ hp_pc = "cycle_end"
    /\ prev_outcome = "completed"
    /\ task_res["B"].isNone
    /\ ~task_res["A"].isNone
    /\ task_res["A"].d["memory"] # None
    /\ prov_notify["A"].alloc["memory"] = task_res["A"].d["memory"]
    /\ final_notify["A"].sent

C3_Inv ==
    policy_state = "raised" =>
       /\ \A g \in Guests :
             /\ ~prov_notify[g].sent
             /\ ~final_notify[g].sent
             /\ set_memory[g] = None
             /\ task[g] = "done"
       /\ ctrl_idx = 0
       /\ ~slept
       /\ hp_pc \in {"cycle_end", "interval_sleep", "loop", "ended"}
       /\ hp_pc = "ended" => ~should_run
       /\ (hp_pc = "loop" /\ should_run) => now >= interval

C3_Step ==
    /\ policy_state' = "raised" => (mon_vars' = mon_vars /\ cur_mem' = cur_mem)
    /\ (policy_state = "raised" /\ hp_pc = "loop" /\ hp_pc' # "loop" /\ should_run)
          => hp_pc' = "inquire"

C4_Original ==
    \A g \in Guests :
       final_notify[g].sent =>
          final_notify[g].alloc = prov_notify[g].alloc /\ final_notify[g].grace = None

\* C4 (amended): the final Notify has grace-period None and carries the
\* controls as the controllers left them: the alloc of the provisional
\* Notify, except that a size above the domain's max memory has been
\* replaced by that max memory by Balloon.
C4_FinalAlloc ==
    \A g \in Guests :
       final_notify[g].sent =>
          /\ final_notify[g].grace = None
          /\ prov_notify[g].sent
          /\ \A r \in Resources :
                final_notify[g].alloc[r] =
                   IF prov_notify[g].alloc[r] # None /\ prov_notify[g].alloc[r] > max_mem(g)
                   THEN max_mem(g)
                   ELSE prov_notify[g].alloc[r]

\* C4 witness: a final Notify after Balloon clamped the guest's target
C4_Witness ==
    \E g \in Guests :
       /\ final_notify[g].sent
       /\ prov_notify[g].alloc["memory"] > max_mem(g)
       /\ final_notify[g].alloc["memory"] = max_mem(g)

\* C5: the grace-period of the provisional Notify is
\* max(0, grace_period - (notify_start - inquiry_time)), between 0 and the
\* configured grace period; the grace sleep is bounded the same way: it is
\* entered only with a positive remainder and ends grace_period after the
\* inquiry started.
C5_GraceClamp ==
    /\ \A g \in Guests :
          prov_notify[g].sent =>
             /\ prov_notify[g].grace =
                   (IF grace_period - (notify_start - inquiry_time) > 0
                    THEN grace_period - (notify_start - inquiry_time) ELSE 0)
             /\ prov_notify[g].grace >= 0
             /\ prov_notify[g].grace <= grace_period
             /\ prov_notify[g].grace <= cfg_grace
    /\ hp_pc = "grace_sleep" =>
          /\ remaining_grace > 0
          /\ remaining_grace <= grace_period
          /\ sleep_until = inquiry_time + grace_period
    /\ slept => remaining_grace >= 0 /\ remaining_grace <= grace_period

\* C5 witness: a provisional Notify sent later than the grace period allows
C5_Witness ==
    \E g \in Guests :
       /\ prov_notify[g].sent
       /\ grace_period > 0
       /\ notify_start - inquiry_time > grace_period
       /\ prov_notify[g].grace = 0

\* ==================================================================
\* Properties of DynamicResourceControl (checked under SpecDRC)
\* ==================================================================

\* _update_memory has returned in the current iteration
Returned == um_ret.branch # "none"

\* C6: the mem_total handed to change_mem_func never exceeds
\* self.available_memory.
C6_NeverExceedAvailable ==
    /\ change_arg # None => change_arg <= available_memory
    /\ drc_pc = "iter_end" => change_arg # None

\* C6 witness: a tick whose target was above the available memory
C6_Witness ==
    /\ drc_pc = "iter_end"
    /\ um_ret.target_memory # None
    /\ um_ret.target_memory > available_memory
    /\ change_arg = available_memory

\* C7 as stated: every target _update_memory returns is at most
\* self.available_memory
C7_Original ==
    (Returned /\ um_ret.target_memory # None) => um_ret.target_memory <= available_memory

\* C7 (amended): a target returned by the shrink branch is at most the
\* available memory; a target returned by the grow-now branch is the
\* adjusted alloc, which is above the available memory observed when
\* _update_memory was called (whatever the poll found); no other branch
\* returns a target.
C7_ReturnedTarget ==
    (Returned /\ um_ret.target_memory # None) =>
       \/ /\ um_ret.branch = "shrink_now"
          /\ um_ret.target_memory <= available_memory
       \/ /\ um_ret.branch = "grow_now"
          /\ um_ret.target_memory = target.alloc - um_entry.memory_diff
          /\ um_ret.target_memory > um_entry.available_memory

\* C7 witness: grow-now returned a target above the polled available memory
C7_Witness ==
    /\ Returned
    /\ um_ret.branch = "grow_now"
    /\ um_ret.target_memory > available_memory

\* C8: with an initialised diff and adjusted = requested - diff below
\* available: a grace above decrease_mem_time defers (no target, wait =
\* grace - decrease_mem_time); without such a grace the target is
\* min(adjusted, available).
C8_ShrinkMargin ==
    (/\ Returned
     /\ ~target.isNone
     /\ target.alloc # None
     /\ is_valid_mem(um_entry.memory_diff)
     /\ target.alloc - um_entry.memory_diff + 1 <= um_entry.available_memory)
    =>
       LET adjusted == target.alloc - um_entry.memory_diff
       IN /\ (target.grace # None /\ target.grace > decrease_mem_time) =>
                /\ um_ret.target_memory = None
                /\ um_ret.wait = target.grace - decrease_mem_time
          /\ (target.grace = None \/ target.grace <= decrease_mem_time) =>
                /\ um_ret.target_memory # None
                /\ um_ret.target_memory =
                      (IF adjusted <= um_entry.available_memory
                       THEN adjusted ELSE um_entry.available_memory)

\* C8 witness: a shrink applied with a grace that no longer exceeds the margin
C8_Witness ==
    /\ Returned
    /\ is_valid_mem(um_entry.memory_diff)
    /\ um_entry.memory_diff > 0
    /\ um_ret.branch = "shrink_now"
    /\ target.grace # None
    /\ target.grace <= decrease_mem_time

\* the first target-bearing notification without grace, diff uninitialised
FirstCall ==
    /\ Returned
    /\ ~target.isNone
    /\ target.alloc # None
    /\ target.grace = None
    /\ ~is_valid_mem(um_entry.memory_diff)

\* C9 as stated: the first call sets the diff, starts the report and
\* returns no target
C9_Original ==
    FirstCall =>
       /\ memory_diff = (IF target.alloc > um_entry.available_memory
                         THEN target.alloc - um_entry.available_memory ELSE 0)
       /\ diff_thread # "none"
       /\ um_ret.target_memory = None

\* C9 (amended): the first call sets memory_diff = max(0, requested -
\* available) and starts the UpdateResourceDiff report; it returns no
\* target when requested >= available, and returns the requested alloc as
\* target at once when requested is below available.
C9_FirstNotification ==
    FirstCall =>
       /\ memory_diff = (IF target.alloc > um_entry.available_memory
                         THEN target.alloc - um_entry.available_memory ELSE 0)
       /\ diff_thread # "none"
       /\ um_ret.wait = wait_timeout
       /\ target.alloc >= um_entry.available_memory => um_ret.target_memory = None
       /\ target.alloc < um_entry.available_memory => um_ret.target_memory = target.alloc

\* C9 witness: a first call with the requested alloc below available
C9_Witness ==
    /\ FirstCall
    /\ target.alloc < um_entry.available_memory
    /\ um_ret.target_memory = target.alloc
    /\ memory_diff = 0

\* C10 as stated: without a target the tick changes nothing
C10_Original ==
    (Returned /\ um_ret.branch = "no_target") =>
       /\ um_ret.wait = wait_timeout
       /\ um_ret.target_memory = None
       /\ change_arg = None
       /\ app_target_thread = None

\* C10 (amended): without a target _update_memory returns
\* (wait_timeout, None) and leaves memory_diff alone, but the tick, unless
\* termination cuts it short, still calls change_mem_func with mem_total =
\* the available memory just read.
C10_NoTarget ==
    (Returned /\ um_ret.branch = "no_target") =>
       /\ target.isNone
       /\ um_ret.wait = wait_timeout
       /\ um_ret.target_memory = None
       /\ memory_diff = um_entry.memory_diff
       /\ drc_pc = "iter_end" => change_arg = available_memory
       /\ drc_pc # "iter_end" => (change_arg = None /\ app_target_thread = None)

\* C10 witness: a tick without target that reported an application target
C10_Witness ==
    /\ drc_pc = "iter_end"
    /\ um_ret.branch = "no_target"
    /\ change_arg = available_memory
    /\ app_target_thread = available_memory

\* ==================================================================
\* Properties of the guest server (checked under SpecGuest)

\* C11 as stated: a Notify without grace-period that repeats the alloc of
\* the stored provisional Notify changes nothing in the server's data and
\* the policy but notify['update-time']
C11_Original ==
    [][(gs_msg'.n # gs_msg.n /\ gs_msg'.renotify) =>
          /\ gs_policy' = gs_policy
          /\ gs_data' = [gs_data EXCEPT !.notify.update_time = gs_clock]]_vars

\* C11 (amended): such a Notify changes notify['update-time'], sets
\* notify['grace-period'] to None and sets the policy's notify event; the
\* alloc, the is_new_notification flag, the other data entries, init_time
\* and resource_diff stay as they were.
C11_Renotify ==
    [][(gs_msg'.n # gs_msg.n /\ gs_msg'.renotify) =>
          /\ gs_policy' = [gs_policy EXCEPT !.notify_event = TRUE]
          /\ gs_data' = [gs_data EXCEPT !.notify.update_time = gs_clock,
                                        !.notify.grace = None]]_vars

\* C11 witness: a repeated Notify handled after a TargetAllocation request
\* had consumed the provisional one
C11_Witness ==
    /\ gs_msg.renotify
    /\ gs_data.notify.is_new_notification = 1
    /\ gs_data.notify.grace = None
    /\ gs_policy.notify_event

\* ==================================================================
\* Further properties of the HostPolicy cycle (checked under Spec)

\* the answer of guest g to this cycle's Inquiry holds a memory size
Answered(g) == ~task_res[g].isNone /\ task_res[g].d["memory"] # None

CycleCompleted == hp_pc = "cycle_end" /\ prev_outcome = "completed"

C18_InquiryControls ==
    (policy_state = "done" /\ ctrl_idx <= 1) =>
       \A g \in Guests :
          /\ ent_vars[g].inquiry = task_res[g]
          /\ ent_controls[g] =
                IF task_res[g].isNone THEN EmptyDict
                ELSE [r \in Resources |-> task_res[g].d[r]]

\* C18 witness: the inquiry of a guest failed in a cycle after one in which
\* it had answered, while the other guest answered
C18_Witness ==
    /\ policy_state = "done"
    /\ ctrl_idx <= 1
    /\ \E g, h \in Guests :
          /\ task_res[g].isNone
          /\ ~mon_vars[g].inquiry.isNone
          /\ mon_vars[g].inquiry.d["memory"] # None
          /\ ent_controls[g] = EmptyDict
          /\ Answered(h)
          /\ ent_controls[h]["memory"] = task_res[h].d["memory"]

\* C20: after Balloon ran, a guest's memory control is at most the domain's
\* max memory, dom.setMemory never gets more than the max memory, and the
\* last_control stored for the next cycle is the clamped control.
C20_BalloonClamp ==
    \A g \in Guests :
       /\ set_memory[g] # None => set_memory[g] <= max_mem(g)
       /\ (ctrl_idx > Len(resources) /\ ent_controls[g]["memory"] # None) =>
             ent_controls[g]["memory"] <= max_mem(g)
       /\ (ctrl_arg[g] # None /\ hp_pc # "control") =>
             /\ mon_vars[g].last_control["memory"] = Min(ctrl_arg[g], max_mem(g))
             /\ mon_vars[g].last_control = ent_controls[g]
       /\ hp_pc = "inquire" => ent_vars[g].last_control = mon_vars[g].last_control
       /\ mon_vars[g].last_control["memory"] # None =>
             mon_vars[g].last_control["memory"] <= max_mem(g)

\* C20 witness: a target above the max memory was clamped, handed to
\* dom.setMemory and stored, and the next cycle starts from it
C20_Witness ==
    \E g \in Guests :
       /\ hp_pc = "final_notify"
       /\ ctrl_arg[g] > max_mem(g)
       /\ set_memory[g] = max_mem(g)
       /\ mon_vars[g].last_control["memory"] = max_mem(g)


\* C13: when a top-level thread has stopped and run_mom has left its
\* liveness loop and signalled termination (it is joining the threads, or
\* has returned), should_run is false for every top-level thread still
\* running, whether the daemon was constructed with a shared terminable or
\* without one.
C13_TerminationReachesThreads ==
    (dm_pc \in {"join", "done"} /\ \E t \in TopThreads : th[t] = "ended") =>
        \A t \in TopThreads : th[t] = "running" => ~ShouldRun(t)

\* C14: while the only terminate() calls so far are those check_threads
\* made on the GuestMonitors of vanished domains, should_run is true for
\* the GuestManager and for every registered GuestMonitor.
C14_OnlyThatGuest ==
    term_log.callers = {"check_threads"} =>
        /\ ShouldRun("GM")
        /\ \A i \in Domains : reg[i] # 0 => MonShouldRun(reg[i])

\* C15: in every step, a termination flag that is set stays set; the
\* objects constructed to share a flag (the daemon and its threads with the
\* outer Terminable, every GuestMonitor with its GuestManager) agree on
\* should_run; and a terminate() call that finds the flag set changes no
\* flag.
C15_Sticky ==
    [][/\ \A e \in Events : ev_set[e] => ev_set'[e]
       /\ shared_arg' = "X" =>
             \A o \in Terminables : ShouldRun(o)' = ShouldRun("X")'
       /\ \A n \in Instances :
             mon'[n].st # "unborn" => MonShouldRun(n)' = ShouldRun("GM")'
       /\ (~term_log.repeated /\ term_log'.repeated) => ev_set' = ev_set]_vars

\* C15 witness: a second terminate() has found the flag set, with the
\* daemon sharing the outer flag and a constructed GuestMonitor stopped by it
C15_Witness ==
    /\ term_log.repeated
    /\ shared_arg = "X"
    /\ ~ShouldRun("HP")
    /\ \E n \in Instances : mon[n].st # "unborn" /\ ~MonShouldRun(n)

\* C16: after every poll (the GuestManager is back between polls) every
\* registered guest id is in the polled domain list, the monitor registered
\* for an id was constructed for that id and no monitor is registered
\* twice, a registered monitor was alive after its construction, and no
\* step replaces one registered monitor by another.
C16_PollInvariant ==
    [][/\ gm_pc' = "idle" =>
             \A i \in Domains : reg'[i] # 0 =>
                 /\ i \in gm_dom'
                 /\ mon'[reg'[i]].id = i
                 /\ mon'[reg'[i]].alive_after_init
                 /\ \A j \in Domains : reg'[j] = reg'[i] => j = i
       /\ \A i \in Domains :
             (reg[i] # 0 /\ reg'[i] # 0) => reg'[i] = reg[i]]_vars

\* C16 witness: a poll has ended with one guest registered while a monitor
\* constructed for another listed guest, dead after construction, is not
C16_Witness ==
    /\ gm_pc = "idle"
    /\ th["GM"] = "running"
    /\ \E i \in gm_dom : reg[i] # 0
    /\ \E n \in Instances :
          /\ mon[n].st = "dead"
          /\ ~mon[n].alive_after_init
          /\ mon[n].id \in gm_dom
          /\ reg[mon[n].id] = 0

\* C17: Monitor.interrogate returns no Entity while ready is unset, a
\* GuestMonitor is ready only if the guest acknowledged its initial Notify,
\* and what GuestManager.interrogate hands to HostPolicy comes from
\* monitors whose Notify was acknowledged only.
C17_NoEntityBeforeHandshake ==
    /\ \A n \in Instances : ~mon[n].ready => ~MonitorInterrogate(mon[n])
    /\ \A n \in Instances : mon[n].ready => mon[n].acked
    /\ \A n \in interrogated : mon[n].acked

\* C17 witness: an interrogation returned one guest and left out a
\* registered guest whose monitor is still in its handshake
C17_Witness ==
    /\ interrogated # {}
    /\ \E i \in Domains :
          /\ reg[i] # 0
          /\ mon[reg[i]].st = "handshake"
          /\ reg[i] \notin interrogated
    /\ interrogated = {reg[i] : i \in {j \in Domains : reg[j] # 0 /\ mon[reg[j]].ready}}


\* C19 as stated: a cycle that starts (termination not signalled) starts
\* at least interval after the start of the cycle before it, and after a
\* cycle that took longer than the interval there was no sleep.
C19_Original ==
    (pace_pc = "run" /\ pace_gap # None) =>
        /\ pace_gap >= pace_interval
        /\ pace_took > pace_interval => pace_slept = 0

\* C19 amended: a cycle that starts (termination not signalled) starts no
\* earlier than interval - minimal_sleep (10 ms) after the start of the
\* cycle before it; when that cycle left more than minimal_sleep of the
\* interval the gap is the interval, otherwise the next cycle started
\* without sleeping.
C19_Pacing ==
    (pace_pc = "run" /\ pace_gap # None) =>
        /\ pace_gap >= pace_interval - DEFAULT_MINIMAL_SLEEP
        /\ pace_interval - pace_took > DEFAULT_MINIMAL_SLEEP => pace_gap = pace_interval
        /\ pace_interval - pace_took <= DEFAULT_MINIMAL_SLEEP =>
              (pace_slept = 0 /\ pace_gap = pace_took)

\* C19 witness: a cycle has started exactly interval - minimal_sleep after
\* the one before it, which did not sleep
C19_Witness ==
    /\ pace_pc = "run"
    /\ pace_gap # None
    /\ pace_gap = pace_interval - DEFAULT_MINIMAL_SLEEP
    /\ pace_slept = 0
    /\ ~pace_term


\* C21: a finished send_receive_message call returned a dict or raised.
\* It returned only the dict response of an acknowledged reply; when the
\* receiver's handler raised, process_message answered ack false, response
\* None and the error text, and a caller the reply reached got a
\* MessageError carrying that text; a reply or a response that is not a
\* dict gave a MessageError; a call that raised returned nothing.
C21_DictOrRaise ==
    rpc_pc = "done" =>
        /\ rpc_result.kind \in {"return", "MessageError", "socket.error"}
        /\ rpc_result.kind = "return" =>
              /\ rpc_wire = "ok"
              /\ rpc_handler.kind = "dict"
              /\ rpc_response.ack /\ rpc_response.resp_isdict
              /\ rpc_result.data = rpc_handler.val
        /\ rpc_handler.kind = "raise" =>
              /\ ~rpc_response.ack /\ ~rpc_response.resp_isdict
              /\ rpc_response.has_error /\ rpc_response.error = rpc_handler.err
              /\ rpc_wire = "ok" =>
                    (rpc_result.kind = "MessageError" /\ rpc_result.err = rpc_handler.err)
        /\ (rpc_wire = "foreign" \/ (rpc_wire = "ok" /\ rpc_handler.kind = "nondict")) =>
              rpc_result.kind = "MessageError"
        /\ rpc_result.kind # "return" => rpc_result.data = EmptyDict

\* C21 witness: a handler raised and the caller holds the MessageError
\* with its text
C21_Witness ==
    /\ rpc_pc = "done"
    /\ rpc_handler.kind = "raise"
    /\ rpc_result.kind = "MessageError"
    /\ rpc_result.err = rpc_handler.err


\* ==================================================================
\* Properties of Monitor.collect (checked under SpecCollect)
\* ==================================================================
\* the h most recent of n records, oldest first
Recent(n, h) == [i \in 1..Min(n, h) |-> n - Min(n, h) + i]

\* C22: whenever data_lock is free, after N appended records the history
\* holds min(N, sample-history-length) records, the most recent ones in
\* collection order; and what an interrogate() running next to collect()
\* copied under the lock is such a history too.
C22_HistoryBound ==
    /\ col_lock = "none" => col_stats = Recent(col_n, col_hist)
    /\ Len(col_snapshot.rows) <= col_hist
    /\ col_snapshot.rows = Recent(col_snapshot.n, col_hist)

\* C22 witness: records were evicted, and an interrogate() has copied the
\* full history after that
C22_Witness ==
    /\ col_hist >= 1
    /\ col_n > col_hist
    /\ col_snapshot.n > col_hist
    /\ Len(col_snapshot.rows) = col_hist
    /\ col_lock = "none"

MaxOf(S) == IF S = {} THEN 0 ELSE CHOOSE m \in S : \A x \in S : x <= m

\* the collectors invoked so far that returned a value under key k
Producers(out, k) ==
    {i \in DOMAIN out : ~out[i].raised /\ out[i].d[k].kind # "absent"}

\* the left-to-right recursive merge, said key by key: the value of the
\* last producer if that is not a dict; otherwise the dicts produced after
\* the last value that is not a dict, merged with the last producer of
\* each nested key winning
LeftToRightMerge(out) ==
    [k \in TopKeys |->
        LET P == Producers(out, k)
            L == MaxOf(P)
            J == MaxOf({i \in P : out[i].d[k].kind = "val"})
            D == {i \in P : i > J}
        IN IF P = {} THEN Absent
           ELSE IF out[L].d[k].kind = "val" THEN out[L].d[k]
           ELSE [kind |-> "dict", v |-> 0,
                 d |-> [sk \in SubKeys |-> MaxOf({i \in D : out[i].d[k].d[sk] # 0})]]]

\* C23: the record collect() builds is, after every collector, the
\* left-to-right recursive merge of the outputs so far: nested dicts merged
\* key by key, and the last collector winning where a value is not a dict.
C23_MergePrecedence == col_data = LeftToRightMerge(col_out)

\* C23 witness: all collectors ran and the record holds a nested dict
\* with one key of the first and one of the last collector
C23_Witness ==
    /\ col_idx \notin collectors
    /\ col_data["a"].kind = "dict"
    /\ col_data["a"].d["x"] = 1
    /\ col_data["a"].d["y"] = MaxCollectors

DidReturn(o) == ~o.raised

RECURSIVE MergeAll(_)
\* the outputs of a sequence of collectors merged one after the other
MergeAll(outs) ==
    IF outs = <<>> THEN EmptyRecord
    ELSE dict_recursive_update(MergeAll(SubSeq(outs, 1, Len(outs) - 1)),
                               outs[Len(outs)].d)

\* C24: when a collector raised in a collect() call that has left its
\* loop, every collector was invoked once, the record is the merge of the
\* outputs of the collectors that did not raise, and once collect() has
\* returned the record was appended to the history (and is its newest
\* record if the history keeps any) and handed to the data logger.
C24_CollectorFailure ==
    (col_pc \in {"appended", "pushed", "idle"} /\ \E i \in DOMAIN col_out : col_out[i].raised) =>
        /\ Len(col_out) = MaxCollectors
        /\ col_data = MergeAll(SelectSeq(col_out, DidReturn))
        /\ col_pc = "idle" =>
              /\ col_logged = col_n
              /\ col_hist > 0 => col_stats[Len(col_stats)] = col_n

\* C24 witness: collect() returned; the second collector raised, and the
\* record has the first collector's key "a" and the last one's "b"
C24_Witness ==
    /\ col_pc = "idle"
    /\ col_n > 0
    /\ col_out[2].raised
    /\ col_data["a"].v = 1
    /\ col_data["b"].v = MaxCollectors
    /\ col_logged = col_n


\* ==================================================================
\* Properties of DeferredStartThread (checked under SpecDefer)
\* ==================================================================
\* the threads that share thread t's start Event
StartGroup(t) == {u \in DsThreads : main_deferred_start(u) = main_deferred_start(t)}

C36_ReleasedOnTermination ==
    \A t \in DsThreads :
        (ds_term[t] /\ ds_st[t] = "waiting") =>
            WaitReturns(main_deferred_start(t) \in ds_started, ds_timeout[t])


\* ==================================================================
\* Properties of the guest policy's inquiry (checked under SpecGuest)
\* ==================================================================
\* C26: the answer of an Inquiry for memory is the response script's value
\* at the time elapsed since the first inquiry plus the inquiry's grace
\* period, plus the memory diff reported last by UpdateResourceDiff, and
\* plus 0 while none was reported.
C26_InquiryDiff ==
    gs_msg.kind = "inquiry" =>
        gs_msg.answer =
            response_script((gs_data.inquiry.update_time - gs_policy.init_time)
                            + gs_data.inquiry.grace)
            + (IF gs_policy.resource_diff["memory"] = None THEN 0
               ELSE gs_policy.resource_diff["memory"])

\* C26 witness: an Inquiry with a grace period, later than the first one,
\* answered after a diff of 5 was reported
C26_Witness ==
    /\ gs_msg.kind = "inquiry"
    /\ gs_policy.resource_diff["memory"] = 5
    /\ gs_data.inquiry.update_time > gs_policy.init_time
    /\ gs_data.inquiry.grace > 0
    /\ gs_msg.answer = response_script(gs_data.inquiry.update_time
                                       - gs_policy.init_time + gs_data.inquiry.grace) + 5

\* ==================================================================
\* Properties of the policy computation and of termination inside a
\* cycle (checked under Spec)
\* ==================================================================
\* a fan-out job of parallel_for_each_guest that has not returned yet
Running(t) == {g \in Guests : t[g] \in {"inquire", "notify", "final"}}

C27_Inv ==
    hp_pc = "policy" => Running(task) = {}

C27_Step ==
    /\ policy_state' # policy_state /\ policy_state' # "none" =>
          /\ hp_pc = "policy"
          /\ policy_state = "none"
          /\ hp_pc' # "policy"
          /\ Running(task) = {}
          /\ task' = task
    /\ Running(task') # Running(task) => hp_pc # "policy" /\ hp_pc' # "policy"

CheckedStages == {"inquire", "policy", "notify", "log", "grace_sleep", "control"}

C28_Step ==
    /\ ~should_run /\ ~slept =>
          /\ ctrl_idx' = ctrl_idx
          /\ apply_pending' = apply_pending
          /\ set_memory' = set_memory
          /\ cur_mem' = cur_mem
          /\ mon_vars' = mon_vars
          /\ final_notify' = final_notify
          /\ \A g \in Guests : task'[g] # "final"
    /\ ~should_run /\ hp_pc \in CheckedStages /\ hp_pc' # hp_pc =>
          /\ hp_pc' = "cycle_end"
          /\ Running(task') \subseteq Running(task)
    /\ ~should_run /\ hp_pc \in {"cycle_end", "interval_sleep", "loop", "ended"} =>
          /\ hp_pc' \in {"cycle_end", "interval_sleep", "loop", "ended"}
          /\ <<task, ent_controls, mon_vars, cur_mem, prov_notify, final_notify,
               set_memory, policy_state>>' =
             <<task, ent_controls, mon_vars, cur_mem, prov_notify, final_notify,
               set_memory, policy_state>>

\* C28: once termination is signalled while the grace sleep of a cycle has
\* not ended, the cycle invokes no apply_control, stores no variables and
\* sends no final Notify; and a stage of do_controls that finds should_run
\* false at its check returns from do_controls without submitting any job,
\* after which nothing of the cycle happens any more.
C28_StopsCycle == [][C28_Step]_vars

\* C28 witness: termination was signalled during the grace sleep, which
\* returned before its time; the cycle ended with every provisional Notify
\* sent, no controller applied and no final Notify
C28_Witness ==
    /\ ~should_run
    /\ hp_pc = "cycle_end"
    /\ prev_outcome = "terminated"
    /\ slept
    /\ now < sleep_until
    /\ ctrl_idx = 0
    /\ \A g \in Guests :
          prov_notify[g].sent /\ ~final_notify[g].sent /\ set_memory[g] = None

\* ==================================================================
\* Properties of the variables kept between cycles (checked under Spec)
\* ==================================================================
\* the step in which a cycle stores the variables of its entities
StoreStep == hp_pc = "control" /\ hp_pc' # "control"

C29_Start == \A g \in Guests : mon_vars[g].last_control = EmptyDict

C29_Inv ==
    \A g \in Guests :
       task[g] = "inquire" =>
          MessageInquiry(ent_vars[g], grace_period).last_alloc = mon_vars[g].last_control

C29_Step ==
    \A g \in Guests :
       IF StoreStep
       THEN /\ mon_vars'[g].last_control = ent_controls[g]
            /\ \A r \in Resources :
                  ent_controls[g][r] =
                     IF task_res[g].isNone THEN None
                     ELSE Clamped(g, task_res[g].d[r])
       ELSE mon_vars'[g].last_control = mon_vars[g].last_control

\* C29: the last-alloc of the Inquiry a cycle sends to a guest is the
\* last_control kept for the guest: {} at the start, changed by the store
\* step of a cycle only, which makes it the controls the guest's entity
\* holds then: what the guest answered in that cycle with the controllers'
\* clamp applied, and nothing when its inquiry failed.
C29_LastAlloc == C29_Start /\ []C29_Inv /\ [][C29_Step]_vars

\* C29 witness: an Inquiry is being sent to a guest whose answer of the
\* cycle before was above its max memory: last-alloc is the max memory
C29_Witness ==
    \E g \in Guests :
       /\ task[g] = "inquire"
       /\ prev_outcome = "completed"
       /\ ~ent_vars[g].inquiry.isNone
       /\ ent_vars[g].inquiry.d["memory"] # None
       /\ ent_vars[g].inquiry.d["memory"] > max_mem(g)
       /\ MessageInquiry(ent_vars[g], grace_period).last_alloc["memory"] = max_mem(g)

\* ==================================================================
\* Properties of a Monitor and its Entity (checked under SpecEntity)
\* ==================================================================
\* the step in which store_variables() is called on the Entity first
FirstStore == ~me_entity.stored /\ me_entity'.stored

C30_Inv ==
    me_entity.live =>
       \A i \in DOMAIN me_entity.statistics : me_entity.statistics[i] <= me_entity.at

C30_Step ==
    /\ ~me_entity.stored /\ ~me_entity'.stored => me_variables' = me_variables
    /\ FirstStore =>
          /\ me_variables'.v = me_entity.variables.v
          /\ me_variables'.last_control = me_entity.controls

\* C30: as long as store_variables() has not been called on an Entity, no
\* write to its variables or controls changes the variables of its
\* Monitor; store_variables() makes the Monitor's variables those of the
\* Entity, with last_control the Entity's controls; and the statistics of
\* an Entity hold no record collected after interrogate() returned it.
C30_EntityFrame == []C30_Inv /\ [][C30_Step]_vars

\* C30 witness: an Entity whose variable and controls were written and
\* then stored, while the Monitor collected a record after interrogate()
C30_Witness ==
    /\ me_entity.live
    /\ me_entity.stored
    /\ me_entity.statistics # <<>>
    /\ me_count > me_entity.at
    /\ me_variables.v = 1
    /\ me_variables.last_control["memory"] = 15
    /\ me_entity.variables.last_control["memory"] = 5

\* ==================================================================
\* Properties of the GuestClient channel (checked under SpecChannel)
\* ==================================================================
\* C31: a provisional Notify called while the guest's server is reachable
\* and answers in time reaches the guest, whatever the remaining grace,
\* 0 included: once the call is over the message is with the server or has
\* updated the guest's notify data; the call's timeout is the remaining
\* grace, and inquiry-timeout for the final Notify.
C31_ProvisionalNotifyDelivered ==
    \A c \in ChCallers :
       /\ (ch_pc[c] = "idle" /\ ch_call[c].kind = "provisional" /\ ch_call[c].up) =>
             \/ \E m \in ch_inbox : m.req = ch_call[c].req
             \/ ch_notify = ch_call[c].req
       /\ ch_call[c].kind = "provisional" => ch_call[c].timeout = ch_call[c].grace
       /\ ch_call[c].kind = "final" => ch_call[c].timeout = INQUIRY_TIMEOUT

C39_Inv ==
    /\ Cardinality({c \in ChCallers : ch_pc[c] # "idle"}) <= 1
    /\ \A c \in ChCallers : ch_result[c].reply \in {0, ch_result[c].req}
    /\ \A c \in ChCallers : ch_pc[c] # "idle" => ch_lock = c

C39_Step ==
    \A c \in ChCallers :
       (ch_result'[c] # ch_result[c] /\ ch_result'[c].reply = 0) => ch_sock' = 0

PollSettled ==
    \/ is_memory_close(um_ret.alloc, available_memory, 1)
    \/ poll_t - poll_stable >= STATS_POLL_TIMEOUT

\* C32: when the adjusted alloc is above the available memory and no grace
\* is left, _update_memory returns the adjusted alloc as target; if the
\* polled available memory reached it or stayed unchanged for the whole
\* poll timeout, memory_diff becomes max(0, requested - polled available)
\* and the wait is wait_timeout, otherwise memory_diff stays and the wait
\* is 0.1 s; with grace left it returns (grace_period, None).
C32_GrowBranches ==
    /\ um_ret.branch = "grow_now" =>
          /\ target.grace = None
          /\ um_ret.target_memory # None
          /\ um_ret.target_memory = target.alloc - um_entry.memory_diff
          /\ um_ret.target_memory > um_entry.available_memory
          /\ IF PollSettled
             THEN /\ memory_diff = Max(0, target.alloc - available_memory)
                  /\ um_ret.wait = wait_timeout
             ELSE /\ memory_diff = um_entry.memory_diff
                  /\ um_ret.wait = 1
    /\ um_ret.branch = "grow_defer" =>
          /\ target.grace # None
          /\ target.alloc - um_entry.memory_diff > um_entry.available_memory
          /\ um_ret.wait = target.grace
          /\ um_ret.target_memory = None
          /\ memory_diff = um_entry.memory_diff

\* C32 witness: the poll ran to its timeout with the available memory
\* changing on the way and short of the target: the diff is kept, the
\* target returned and the wait 0.1 s
C32_Witness ==
    /\ um_ret.branch = "grow_now"
    /\ ~PollSettled
    /\ poll_t = STATS_POLL_TIMEOUT
    /\ um_entry.memory_diff > 0
    /\ target.alloc - available_memory # um_entry.memory_diff
    /\ um_ret.wait = 1

\* C37: memory_diff is uninitialised (NaN) or a number that is at least 0;
\* once it is a number it never becomes uninitialised again; and
\* _update_memory returns no target while memory_diff is uninitialised.
C37_Diff ==
    /\ [](memory_diff = InvalidMemory \/ memory_diff >= 0)
    /\ [](um_ret.target_memory # None => is_valid_mem(memory_diff))
    /\ [](um_ret.branch = "uninit" =>
             um_ret.target_memory = None /\ ~is_valid_mem(memory_diff))
    /\ [][is_valid_mem(memory_diff) => is_valid_mem(memory_diff')]_vars

\* C37 witness: the first notification found the available memory above
\* the alloc and the diff was clamped to 0; a later call, the poll over with
\* the available memory short of the target, replaced it by a diff above 0
\* and returned the target
C37_Witness ==
    /\ um_ret.branch = "grow_now"
    /\ um_entry.memory_diff = 0
    /\ memory_diff > 0
    /\ um_ret.target_memory # None

\* ==================================================================
\* Properties of request_target and of the notification it receives
\* (checked under SpecTarget)
\* ==================================================================
\* C33: the grace-period request_target hands on is the notified one minus
\* the time since the notification's update-time; it is None when the
\* notification carried None or less than 0.01 s is left, so it is never
\* negative and never above the notified value.
C33_RemainingGrace ==
    tg_out.called =>
       LET ut == IF tg_out.update_time = None THEN tg_out.cur_time
                 ELSE tg_out.update_time
           left == tg_out.notified - (tg_out.cur_time - ut)
       IN IF tg_out.notified = None THEN tg_out.grace_period = None
          ELSE IF left < 1 THEN tg_out.grace_period = None
          ELSE /\ tg_out.grace_period = left
               /\ tg_out.grace_period >= 0
               /\ tg_out.grace_period <= tg_out.notified

\* C33 witness: a notified grace of 0.02 s of which 0.01 s is left
C33_Witness ==
    /\ tg_out.called
    /\ tg_out.notified = 2
    /\ tg_out.cur_time - tg_out.update_time = 1
    /\ tg_out.grace_period = 1

\* C38: the notification a TargetAllocation request returns has its alloc,
\* its grace-period and its update-time from one and the same Notify.
C38_ConsistentSnapshot ==
    tg_reply.present =>
       /\ tg_reply.alloc.src = tg_reply.grace.src
       /\ tg_reply.grace.src = tg_reply.update_time.src

\* ==================================================================
\* Properties of Balloon.apply_control (checked under SpecBalloon)
\* ==================================================================
\* target - current memory of a guest, and 0 for a guest without a target
\* or without the statistic
BlKey(g) ==
    IF bl_target[g] # None /\ bl_curmem[g] # None THEN bl_target[g] - bl_curmem[g]
    ELSE 0

\* the place at which a guest was serviced, 0 if it was not yet
Serviced(g) ==
    IF \E i \in DOMAIN bl_order : bl_order[i] = g
    THEN CHOOSE i \in DOMAIN bl_order : bl_order[i] = g
    ELSE 0

\* C34: apply_control calls apply_guest_control for the guests in
\* non-decreasing order of target - current memory, a guest whose key
\* cannot be computed counting as 0: no guest that grows is serviced
\* before a guest that shrinks, and every guest is serviced once.
C34_ShrinkFirst ==
    /\ \A i, j \in DOMAIN bl_order :
          i < j => BlKey(bl_order[i]) <= BlKey(bl_order[j]) /\ bl_order[i] # bl_order[j]
    /\ \A g, h \in BlGuests :
          (BlKey(g) < 0 /\ BlKey(h) > 0 /\ Serviced(h) # 0) =>
              Serviced(g) # 0 /\ Serviced(g) < Serviced(h)
    /\ \A g, h \in BlGuests :
          (BlKey(g) < BlKey(h) /\ Serviced(h) # 0) => Serviced(g) # 0

\* C34 witness: the list has a growing guest first, then one without the
\* statistic, then a shrinking one; they were serviced in the opposite order
C34_Witness ==
    /\ Len(bl_order) = Len(bl_guests)
    /\ BlKey("G1") > 0
    /\ bl_curmem["G2"] = None /\ bl_target["G2"] # None
    /\ BlKey("G3") < 0
    /\ bl_order = <<"G3", "G2", "G1">>

\* ==================================================================
\* Properties of the controllers' loop (checked under SpecControl)
\* ==================================================================
\* C40: when a controller's apply_control raises, the controllers after it
\* are not applied, store_variables is not called (last_control keeps its
\* value) and no final Notify is sent in that cycle; the HostPolicy thread
\* has ended and does nothing more, and run_mom's check, finding it not
\* alive, leaves its loop and terminates the daemon.
C40_Inv ==
    ct_raised # 0 =>
        /\ ct_pc = "dead"
        /\ ~HostPolicyAlive
        /\ ct_applied = SubSeq(controllers, 1, ct_raised - 1)
        /\ ~ct_stored
        /\ ~ct_final
        /\ ct_dm = "loop" => ENABLED CT_DaemonCheck

C40_Step ==
    /\ (ct_raised = 0 /\ ct_raised' # 0) => ct_last' = ct_last
    /\ ct_raised # 0 =>
          /\ <<ct_pc, ct_idx, ct_applied, ct_raised, ct_controls, ct_last,
               ct_stored, ct_final, ct_cycles>>' =
             <<ct_pc, ct_idx, ct_applied, ct_raised, ct_controls, ct_last,
               ct_stored, ct_final, ct_cycles>>
          /\ (ct_dm = "loop" /\ ct_dm' # "loop") =>
                 ct_dm' = "terminate" /\ ct_warned' = ~ct_term["D"]
          /\ (ct_dm = "terminate" /\ ct_dm' # "terminate") => ct_term'["D"]

C40_ControllerFailure == []C40_Inv /\ [][C40_Step]_vars

\* C40 witness: in the second cycle the second controller raised after the
\* first was applied; last_control is still the one of the first cycle, and
\* the daemon, which found the thread dead, has terminated and joined
C40_Witness ==
    /\ ct_raised = 2
    /\ ct_applied = <<"memory">>
    /\ ct_cycles = 2
    /\ ct_last # 0 /\ ct_last # ct_controls
    /\ ct_warned
    /\ ct_dm = "done"

\* ==================================================================
\* Properties of terminable_sleep (checked under SpecSleep)
\* ==================================================================
\* C35: a thread blocked in terminable_sleep(t) is woken by terminate() on
\* any Terminable sharing its Event, whatever is left of t, and then
\* returns False; it returns True only if t passed with no terminate()
\* before; a call with t at most the minimal sleep (negative t included)
\* does not block and returns should_run, and a call with a larger t
\* blocks unless the Event is already set.
C35_Inv ==
    \A t \in SlThreads :
        /\ (sl_pc[t] = "blocked" /\ sl_set["E"]) =>
               /\ sl_notified[t] \/ sl_waited[t] = sl_timeout[t]
               /\ sl_early[t] => sl_notified[t]
               /\ sl_notified[t] => ENABLED SL_Return(t)
        /\ sl_pc[t] = "blocked" => sl_timeout[t] > DEFAULT_MINIMAL_SLEEP
        /\ sl_result[t] = "True" =>
               /\ ~sl_early[t]
               /\ sl_timeout[t] > DEFAULT_MINIMAL_SLEEP => sl_waited[t] = sl_timeout[t]
        /\ sl_result[t] = "False" => sl_set["E"]

C35_Step ==
    \A t \in SlThreads :
        /\ (sl_pc[t] = "idle" /\ sl_pc'[t] # "idle") =>
               IF sl_timeout'[t] <= DEFAULT_MINIMAL_SLEEP \/ sl_set["E"]
               THEN /\ sl_pc'[t] = "returned"
                    /\ sl_result'[t] = IF sl_set["E"] THEN "False" ELSE "True"
               ELSE sl_pc'[t] = "blocked"
        /\ (sl_pc[t] = "blocked" /\ sl_pc'[t] = "returned" /\ sl_notified[t]) =>
               sl_result'[t] = "False"
        /\ (sl_pc[t] = "blocked" /\ ~sl_set["E"] /\ sl_set'["E"]
              /\ sl_waited[t] < sl_timeout[t]) => sl_notified'[t]

C35_TerminableSleep == []C35_Inv /\ [][C35_Step]_vars

\* C35 witness: terminate() on X, which shares the Event, reached one
\* thread after one of its three hundredths and it returned False, while
\* the other thread's sleep of two hundredths had run out and returned True
C35_Witness ==
    /\ sl_result["T1"] = "False" /\ sl_timeout["T1"] = 3 /\ sl_waited["T1"] < 3
    /\ sl_early["T1"]
    /\ sl_result["T2"] = "True" /\ sl_timeout["T2"] = 2 /\ sl_waited["T2"] = 2

====
